---- MODULE Spec2Model ----
(***************************************************************************)
(* State-machine model of coachgpt's synchronization and caching core:     *)
(*   - the worker's syncStravaForAthlete (token step, paginated fetch,     *)
(*     401 refresh loop, upsert, watermark) over the athlete/workout       *)
(*     tables;                                                             *)
(*   - the CLI's Client.EnsureTokens over the token file;                  *)
(*   - the cached GETs Client.apiGETCached, stravaApiGETCached and         *)
(*     Client.doJSON over the file cache;                                  *)
(*   - the cache stores themselves (Read, Write, KeyFor), called directly. *)
(* Every blocking call (HTTP round trip, SQL statement, file write) is one *)
(* step whose outcome the environment chooses; a cache Write and the       *)
(* worker's token refresh are also given in two steps, for the callers     *)
(* that run at the same time.                                              *)
(***************************************************************************)
EXTENDS Integers, Sequences, FiniteSets, TLC

VARIABLES
    now,        \* wall clock, Unix seconds
    athlete,    \* athlete table: id -> token columns and last_strava_sync
    workout,    \* workout table: a set of rows
    feed,       \* upstream activity feed: athlete id -> set of activities
    sync,       \* worker -> position and locals of its syncStravaForAthlete call
    lastUp,     \* history: (athlete, source_id) -> the row of the latest upsert
    syncsLeft,  \* sync jobs still to be delivered
    editsLeft,  \* upstream edits still to happen
    tokFile,    \* ~/strava_token.json
    ens,        \* position and locals of the EnsureTokens call
    callsLeft,  \* EnsureTokens calls still to be made
    cache,      \* cache directory: key -> file
    fetch,      \* position and locals of the cached GET in progress
    fetchesLeft,\* cached GETs still to be made
    impl,       \* the client the cache belongs to: "api", "main" or "hevy"
    unauthLeft, \* 401 answers the activity feed still gives
    prev,       \* history: athlete -> the last call that returned for it
    texts,      \* the error texts the network, the upstream and the database give
    op,         \* history: the last operation made on the cache store itself
    writer,     \* a Write of the cache store that is under way
    keyed,      \* the two requests whose cache keys are computed, and the keys
    registry,   \* the provider Registry of the CLI and the calls made on it
    zones       \* the heart-rate samples given to ComputeZones, and its result

vars == <<now, athlete, workout, feed, sync, lastUp, syncsLeft, editsLeft,
          tokFile, ens, callsLeft, cache, fetch, fetchesLeft, impl, unauthLeft, prev,
          texts, op, writer, keyed, registry, zones>>

syncVars == <<athlete, workout, feed, sync, lastUp, syncsLeft, editsLeft, unauthLeft, prev,
             texts>>
tokenVars == <<tokFile, ens, callsLeft>>
fetchVars == <<cache, fetch, fetchesLeft, impl, op, writer, keyed, registry, zones>>

----------------------------------------------------------------------------
(* Bounds of the model *)

StartTime == 2000000
TickSec == 60
MaxTicks == 2
MaxSyncs == 2
MaxEdits == 1
MaxCalls == 2
MaxFetches == 2
FetchTtl == 60
Max401 == 2
FeedPageSize == 1
TokenLifetime == 3600

(* Program constants *)

SyncRefreshMargin == 120
EnsureRefreshMargin == 120
StatusOK == 200
SyncOverlapSec == 43200
SyncLookbackSec == 1209600

Athletes == {"a1", "a2"}
\* the server runs handlers concurrently (Concurrency: 8); two of them are modelled,
\* and Solo is the one that runs alone in the sequential specifications
Workers == {"w1", "w2"}
Solo == {"w1"}

----------------------------------------------------------------------------
(* The clock *)

Tick ==
    /\ now + TickSec <= StartTime + MaxTicks * TickSec
    /\ now' = now + TickSec
    /\ UNCHANGED <<syncVars, tokenVars, fetchVars, unauthLeft, prev, texts>>

----------------------------------------------------------------------------
(* The token endpoint, as the worker sees it *)

\* Tokens are numbered: access token <<"A", n>>, refresh token <<"R", n>>.
NoTok == [access |-> <<"A", 0>>, refresh |-> <<"R", 0>>, expires_at |-> 0]

JunkBody == [json |-> FALSE, access |-> <<"A", 0>>, refresh |-> <<"R", 0>>, expires_at |-> 0]

\* what the error of a failed query reads
DbTexts == {<<"conn", "closed">>, <<"connection", "refused">>}

\* Error texts are sequences of lower-case words, as strings.ToLower(err.Error())
\* reads; the colon a format string puts after a number is a word of its own.
\* AllTexts has every text: what err.Error() of a failed round trip reads, what the
\* body of an error response reads, what a database error and the error of
\* GetAthlete read.  PlainTexts has one of each, for the specifications that do not
\* read them.
AllTexts ==
    [transport |-> {<<"i/o", "timeout">>, <<"connection", "refused">>,
                    <<"no", "such", "host">>},
     bodies |-> {<<>>, <<"rate", "limit", "exceeded">>, <<"invalid_grant">>},
     db |-> DbTexts,
     getAthlete |-> {<<"no", "rows", "in", "result", "set">>} \cup DbTexts]
PlainTexts ==
    [transport |-> {<<"i/o", "timeout">>}, bodies |-> {<<>>}, db |-> {<<"conn", "closed">>},
     getAthlete |-> {<<"no", "rows", "in", "result", "set">>}]

\* what the error of json.Unmarshal and of Decode reads
DecodeText == <<"invalid", "character">>

\* %d of a status code
StatusWord(n) ==
    CASE n = 200 -> "200" [] n = 201 -> "201" [] n = 400 -> "400" [] n = 401 -> "401"
      [] n = 403 -> "403" [] n = 429 -> "429" [] n = 500 -> "500" [] n = 501 -> "501"
      [] OTHER -> "0"

\* what the token endpoint can send back at time t for the refresh token `refresh`:
\* the next token pair (the refresh token rotates), or a body that does not decode
TokenBodies(t, refresh) ==
    {[json |-> TRUE, access |-> <<"A", refresh[2] + 1>>, refresh |-> <<"R", refresh[2] + 1>>,
      expires_at |-> t + TokenLifetime],
     JunkBody}

\* the endpoint grants nothing for the empty refresh token
TokenOutcomes(t, refresh) ==
    {[neterr |-> TRUE, status |-> 0, body |-> JunkBody, text |-> x] : x \in texts.transport}
    \cup (IF refresh = NoTok.refresh THEN {}
          ELSE {[neterr |-> FALSE, status |-> s, body |-> b, text |-> <<>>] :
                    s \in {200, 201}, b \in TokenBodies(t, refresh)}
               \cup {[neterr |-> FALSE, status |-> s, body |-> b, text |-> <<>>] :
                    s \in {400, 500}, b \in TokenBodies(t, refresh) \ {JunkBody}})
    \cup {[neterr |-> FALSE, status |-> s, body |-> JunkBody, text |-> x] :
            s \in {400, 500}, x \in texts.bodies}

\* no exchange made
NoOutcome == [neterr |-> FALSE, status |-> 0, body |-> JunkBody, text |-> <<>>]

\* the text of the error refreshStravaToken returns on o
RefreshErrorText(o) ==
    IF o.neterr THEN o.text
    ELSE IF o.status >= 300
        THEN <<"strava", "token", "status", StatusWord(o.status), ":">> \o o.text
    ELSE DecodeText

\* variant of refreshStravaToken that leaves out the status check of line 433
refreshStravaToken_NoStatusCheck(o) ==
    IF o.neterr THEN [ok |-> FALSE, cause |-> "transport", status |-> 0, tok |-> NoTok]
    ELSE IF ~o.body.json
        THEN [ok |-> FALSE, cause |-> "decode", status |-> 0, tok |-> NoTok]
    ELSE [ok |-> TRUE, cause |-> "", status |-> 0,
          tok |-> [access |-> o.body.access, refresh |-> o.body.refresh,
                   expires_at |-> o.body.expires_at]]

\* refreshStravaToken: (*tokenResp, error)
refreshStravaToken(o) ==
    IF o.neterr THEN [ok |-> FALSE, cause |-> "transport", status |-> 0, tok |-> NoTok]
    ELSE IF o.status >= 300
        THEN [ok |-> FALSE, cause |-> "status", status |-> o.status, tok |-> NoTok]
    ELSE IF ~o.body.json
        THEN [ok |-> FALSE, cause |-> "decode", status |-> 0, tok |-> NoTok]
    ELSE [ok |-> TRUE, cause |-> "", status |-> 0,
          tok |-> [access |-> o.body.access, refresh |-> o.body.refresh,
                   expires_at |-> o.body.expires_at]]

----------------------------------------------------------------------------
(* The athlete and workout tables *)

\* variant of UpdateAthleteStravaTokens whose UPDATE also sets last_strava_sync
UpdateAthleteStravaTokens_TouchesSync(tbl, id, access, refresh, expiry) ==
    [tbl EXCEPT ![id].access = access, ![id].refresh = refresh, ![id].expiry = expiry,
                ![id].hasSync = TRUE, ![id].lastSync = expiry]

\* UpdateAthleteStravaTokens
UpdateAthleteStravaTokens(tbl, id, access, refresh, expiry) ==
    [tbl EXCEPT ![id].access = access, ![id].refresh = refresh, ![id].expiry = expiry]

\* variant of UpdateAthleteLastStravaSync without the WHERE clause
UpdateAthleteLastStravaSync_EveryRow(tbl, id, t) ==
    [a \in DOMAIN tbl |-> [tbl[a] EXCEPT !.hasSync = TRUE, !.lastSync = t]]

\* UpdateAthleteLastStravaSync
UpdateAthleteLastStravaSync(tbl, id, t) ==
    [tbl EXCEPT ![id].hasSync = TRUE, ![id].lastSync = t]

SameKey(r, s) ==
    /\ r.athlete_id = s.athlete_id
    /\ r.source = s.source
    /\ r.source_id = s.source_id

\* variant of UpsertWorkout without the ON CONFLICT clause and the unique index
UpsertWorkout_InsertOnly(rows, r) == rows \cup {r}

\* UpsertWorkout: INSERT ... ON CONFLICT (athlete_id, source, source_id) DO UPDATE
\* (a row is its key and the columns written from the params; updated_at, which the
\* statement sets to now() on a conflict, is bookkeeping outside the record)
UpsertWorkout(rows, r) ==
    IF \E x \in rows : SameKey(x, r)
    THEN {x \in rows : ~SameKey(x, r)} \cup {r}
    ELSE rows \cup {r}

\* the token columns of athlete id
StoredCred(tbl, id) ==
    [access |-> tbl[id].access, refresh |-> tbl[id].refresh, expires_at |-> tbl[id].expiry]

\* the params without the name of the activity
UpsertParams_DropsName(aid, a) ==
    [athlete_id |-> aid, source |-> "strava", source_id |-> a.id,
     name |-> "", started_at |-> a.start]

\* the params with the time of the upsert for the start of the activity
UpsertParams_StampsNow(aid, a) ==
    [athlete_id |-> aid, source |-> "strava", source_id |-> a.id,
     name |-> a.name, started_at |-> now]

\* the UpsertWorkoutParams built from one decoded stravaActivity
UpsertParams(aid, a) ==
    [athlete_id |-> aid, source |-> "strava", source_id |-> a.id,
     name |-> a.name, started_at |-> a.start]

NoRow == [athlete_id |-> "", source |-> "", source_id |-> 0, name |-> "", started_at |-> 0]

NoUpsert == [row |-> NoRow, replaced |-> FALSE]

----------------------------------------------------------------------------
(* The upstream activity feed *)

ActivityIds == {1, 2}

InitFeed ==
    [a \in Athletes |->
        IF a = "a1"
        THEN {[id |-> 1, name |-> "n1", start |-> StartTime - 100000],
              [id |-> 2, name |-> "n1", start |-> StartTime - 100]}
        ELSE {[id |-> 1, name |-> "n1", start |-> StartTime - 100]}]

\* the activities of s in start order
RECURSIVE SortByStart(_)
SortByStart(s) ==
    IF s = {} THEN <<>>
    ELSE LET m == CHOOSE x \in s : \A y \in s : x.start < y.start \/ (x.start = y.start /\ x.id <= y.id)
         IN <<m>> \o SortByStart(s \ {m})

\* GET /athlete/activities?after=..&page=..: the page-th slice of the activities
\* that started after `after`
FeedPage(acts, after, page) ==
    LET all == SortByStart({x \in acts : x.start > after})
        lo == (page - 1) * FeedPageSize + 1
        hi == IF page * FeedPageSize < Len(all) THEN page * FeedPageSize ELSE Len(all)
    IN IF lo > Len(all) THEN <<>> ELSE SubSeq(all, lo, hi)

\* an athlete renames an activity upstream
UpstreamEdit(a, i) ==
    /\ editsLeft > 0
    /\ <<a, i>> \in {<<"a1", 2>>}
    /\ \E x \in feed[a] : x.id = i /\ x.name = "n1"
    /\ feed' = [feed EXCEPT ![a] = {IF x.id = i THEN [x EXCEPT !.name = "n2"] ELSE x : x \in feed[a]}]
    /\ editsLeft' = editsLeft - 1
    /\ UNCHANGED <<now, athlete, workout, sync, lastUp, syncsLeft, tokenVars, fetchVars, unauthLeft, prev, texts>>

\* an athlete deletes an activity upstream: the later activities move up one place
\* in the page numbering of the feed
UpstreamDelete(a, i) ==
    /\ editsLeft > 0
    /\ \E x \in feed[a] : x.id = i
    /\ feed' = [feed EXCEPT ![a] = {x \in feed[a] : x.id # i}]
    /\ editsLeft' = editsLeft - 1
    /\ UNCHANGED <<now, athlete, workout, sync, lastUp, syncsLeft, tokenVars, fetchVars, unauthLeft, prev, texts>>

----------------------------------------------------------------------------
(* syncStravaForAthlete *)

IdleSync ==
    [pc |-> "idle", aid |-> "", sinceUnix |-> 0,
     access |-> NoTok.access, refresh |-> NoTok.refresh, expiry |-> 0,
     hasSync |-> FALSE, lastSync |-> 0,
     since |-> 0, page |-> 0, items |-> <<>>,
     err |-> "", status |-> 0, cause |-> "", detail |-> <<>>,
     payload |-> "", requeue |-> FALSE,
     \* history of the call, read by the properties only
     startedAt |-> -1, reqs |-> <<>>, ups |-> 0, feed0 |-> {},
     wm0 |-> [hasSync |-> FALSE, lastSync |-> 0],
     cred0 |-> NoTok, decidedAt |-> -1, proCalls |-> 0,
     n401 |-> 0, retried |-> FALSE, lastTok |-> NoTok,
     lastO |-> NoOutcome, credBefore |-> NoTok]

\* return fmt.Errorf("<kind>: ...")
SyncFail(s, kind, cause, status) ==
    [s EXCEPT !.pc = "done", !.err = kind, !.cause = cause, !.status = status]

\* the failure with the text of the wrapped error
SyncFailWith(s, kind, cause, status, text) ==
    [SyncFail(s, kind, cause, status) EXCEPT !.detail = text]

\* the last call that returned for an athlete: none yet; the history is kept only
\* in the specification that sets track
NoPrev == [track |-> FALSE, ok |-> FALSE, sinceUnix |-> 0, rows |-> {}, feed0 |-> {}]

SinceInputs == {0, StartTime - 1000}

\* GetAthlete and the copy of its token columns into access, refresh, expiry
SyncStart(w, a, su) ==
    /\ sync[w].pc = "idle"
    /\ ens.pc = "idle"
    /\ syncsLeft > 0
    /\ syncsLeft' = syncsLeft - 1
    /\ \/ sync' = [sync EXCEPT ![w] =
                [IdleSync EXCEPT !.pc = "token", !.aid = a, !.sinceUnix = su, !.startedAt = now,
                    !.payload = "ok",
                    !.feed0 = IF prev[a].track THEN feed[a] ELSE {},
                    !.access = athlete[a].access, !.refresh = athlete[a].refresh,
                    !.expiry = athlete[a].expiry,
                    !.hasSync = athlete[a].hasSync, !.lastSync = athlete[a].lastSync,
                    !.wm0 = [hasSync |-> athlete[a].hasSync, lastSync |-> athlete[a].lastSync],
                    !.cred0 = [access |-> athlete[a].access, refresh |-> athlete[a].refresh,
                               expires_at |-> athlete[a].expiry]]]
       \/ \E x \in texts.getAthlete : sync' = [sync EXCEPT ![w] =
                SyncFailWith([IdleSync EXCEPT !.aid = a, !.sinceUnix = su, !.startedAt = now,
                            !.payload = "ok",
                    !.feed0 = IF prev[a].track THEN feed[a] ELSE {},
                            !.wm0 = [hasSync |-> athlete[a].hasSync,
                                     lastSync |-> athlete[a].lastSync],
                            !.cred0 = [access |-> athlete[a].access,
                                       refresh |-> athlete[a].refresh,
                                       expires_at |-> athlete[a].expiry]],
                         "get athlete", "db", 0, x)]
    /\ UNCHANGED <<now, athlete, workout, feed, lastUp, editsLeft, tokenVars, fetchVars, unauthLeft, prev, texts>>

\* variant of SyncNeedsRefresh that also refreshes at exactly two minutes
SyncNeedsRefresh_Inclusive(expiry, t) == expiry - t <= SyncRefreshMargin

\* time.Until(expiry) < 2*time.Minute
SyncNeedsRefresh(expiry, t) == expiry - t < SyncRefreshMargin

\* the token is not about to expire: no refresh
SyncTokenValid(w) ==
    /\ sync[w].pc = "token"
    /\ ~SyncNeedsRefresh(sync[w].expiry, now)
    /\ sync' = [sync EXCEPT ![w].pc = "since", ![w].decidedAt = now]
    /\ UNCHANGED <<now, athlete, workout, feed, lastUp, syncsLeft, editsLeft, tokenVars, fetchVars, unauthLeft, prev, texts>>

\* variant of SyncAfterRefresh that keeps the old refresh token
SyncAfterRefresh_KeepsOldRefresh(s, r, errKind, next) ==
    IF ~r.ok THEN SyncFail(s, errKind, r.cause, r.status)
    ELSE [s EXCEPT !.pc = next, !.access = r.tok.access,
                   !.expiry = r.tok.expires_at, !.lastTok = r.tok]

\* the worker after refreshStravaToken returned r; errKind names the wrapping error,
\* next the position on success
SyncAfterRefresh(s, r, errKind, next) ==
    IF ~r.ok THEN SyncFail(s, errKind, r.cause, r.status)
    ELSE [s EXCEPT !.pc = next, !.access = r.tok.access, !.refresh = r.tok.refresh,
                   !.expiry = r.tok.expires_at, !.lastTok = r.tok]

\* the proactive refresh of lines 294-301
SyncRefresh(w) ==
    /\ sync[w].pc = "token"
    /\ SyncNeedsRefresh(sync[w].expiry, now)
    /\ \E o \in TokenOutcomes(now, sync[w].refresh) :
        sync' = [sync EXCEPT ![w] =
            SyncAfterRefresh([sync[w] EXCEPT !.decidedAt = now, !.proCalls = @ + 1,
                                !.lastO = o, !.credBefore = StoredCred(athlete, sync[w].aid),
                                !.detail = IF refreshStravaToken(o).ok THEN <<>>
                                           ELSE RefreshErrorText(o)],
                             refreshStravaToken(o), "refresh strava token", "saveTok")]
    /\ UNCHANGED <<now, athlete, workout, feed, lastUp, syncsLeft, editsLeft, tokenVars, fetchVars, unauthLeft, prev, texts>>

\* The proactive refresh in two steps, for handlers that run at once: the POST to
\* the token endpoint is sent (line 295 calls refreshStravaToken), and its answer
\* comes back.
SyncRefreshBegin(w) ==
    /\ sync[w].pc = "token"
    /\ SyncNeedsRefresh(sync[w].expiry, now)
    /\ sync' = [sync EXCEPT ![w].pc = "refreshing", ![w].decidedAt = now]
    /\ UNCHANGED <<now, athlete, workout, feed, lastUp, syncsLeft, editsLeft, tokenVars, fetchVars, unauthLeft, prev, texts>>

SyncRefreshEnd(w) ==
    /\ sync[w].pc = "refreshing"
    /\ \E o \in TokenOutcomes(now, sync[w].refresh) :
        sync' = [sync EXCEPT ![w] =
            SyncAfterRefresh([sync[w] EXCEPT !.proCalls = @ + 1,
                                !.lastO = o, !.credBefore = StoredCred(athlete, sync[w].aid),
                                !.detail = IF refreshStravaToken(o).ok THEN <<>>
                                           ELSE RefreshErrorText(o)],
                             refreshStravaToken(o), "refresh strava token", "saveTok")]
    /\ UNCHANGED <<now, athlete, workout, feed, lastUp, syncsLeft, editsLeft, tokenVars, fetchVars, unauthLeft, prev, texts>>

\* q.UpdateAthleteStravaTokens after the proactive refresh
SyncSaveTokens(w) ==
    /\ sync[w].pc = "saveTok"
    /\ \/ /\ athlete' = UpdateAthleteStravaTokens(athlete, sync[w].aid, sync[w].access,
                                                  sync[w].refresh, sync[w].expiry)
          /\ sync' = [sync EXCEPT ![w].pc = "since", ![w].lastO = NoOutcome,
                                   ![w].credBefore = NoTok]
       \/ /\ \E x \in texts.db : sync' = [sync EXCEPT ![w] =
                    SyncFailWith([@ EXCEPT !.lastO = NoOutcome, !.credBefore = NoTok],
                                 "update athlete strava tokens", "db", 0, x)]
          /\ UNCHANGED athlete
    /\ UNCHANGED <<now, workout, feed, lastUp, syncsLeft, editsLeft, tokenVars, fetchVars, unauthLeft, prev, texts>>

\* variant of SyncSince in which a stored watermark wins over the explicit since
SyncSince_WatermarkFirst(t, hasSync, lastSync, sinceUnix) ==
    IF hasSync THEN lastSync - SyncOverlapSec
    ELSE IF sinceUnix # 0 THEN sinceUnix
    ELSE t - SyncLookbackSec

\* the window start of lines 313-320
SyncSince(t, hasSync, lastSync, sinceUnix) ==
    IF sinceUnix # 0 THEN sinceUnix
    ELSE IF hasSync THEN lastSync - SyncOverlapSec
    ELSE t - SyncLookbackSec

SyncComputeSince(w) ==
    /\ sync[w].pc = "since"
    /\ sync' = [sync EXCEPT ![w].pc = "fetch", ![w].page = 1,
                    ![w].since = SyncSince(now, sync[w].hasSync, sync[w].lastSync,
                                           sync[w].sinceUnix)]
    /\ UNCHANGED <<now, athlete, workout, feed, lastUp, syncsLeft, editsLeft, tokenVars, fetchVars, unauthLeft, prev, texts>>

\* what one GET of the activity feed can come back with
PageOutcomes ==
    {[neterr |-> TRUE, status |-> 0, json |-> FALSE, text |-> x] : x \in texts.transport}
    \cup {[neterr |-> FALSE, status |-> s, json |-> j, text |-> <<>>] :
            s \in {200, 401}, j \in BOOLEAN}
    \cup {[neterr |-> FALSE, status |-> s, json |-> FALSE, text |-> x] :
            s \in {403, 429, 500, 501}, x \in texts.bodies}

\* the text that follows the prefix of the error returned on o
PageErrorText(o) ==
    IF o.neterr THEN o.text
    ELSE IF o.status = 401 THEN <<>>
    ELSE IF o.status >= 300 THEN o.text
    ELSE IF ~o.json THEN DecodeText
    ELSE <<>>

\* variant of SyncAfterPage that takes every decodable page for the last one
SyncAfterPage_StopsAfterFirstPage(s, o, items) ==
    IF o.neterr THEN SyncFail(s, "fetch strava activities", "transport", 0)
    ELSE IF o.status = 401 THEN [s EXCEPT !.pc = "refresh401", !.n401 = @ + 1]
    ELSE IF o.status >= 300 THEN SyncFail(s, "strava activities status", "status", o.status)
    ELSE IF ~o.json THEN SyncFail(s, "unmarshal strava activities", "decode", 0)
    ELSE [s EXCEPT !.pc = "mark", !.retried = FALSE]

\* the worker after the response o to the request of the current page (lines 337-371);
\* items is what the body decodes to
SyncAfterPage(s, o, items) ==
    IF o.neterr THEN SyncFail(s, "fetch strava activities", "transport", 0)
    ELSE IF o.status = 401 THEN [s EXCEPT !.pc = "refresh401", !.n401 = @ + 1]
    ELSE IF o.status >= 300 THEN SyncFail(s, "strava activities status", "status", o.status)
    ELSE IF ~o.json THEN SyncFail(s, "unmarshal strava activities", "decode", 0)
    ELSE IF Len(items) = 0 THEN [s EXCEPT !.pc = "mark", !.retried = FALSE]
    ELSE [s EXCEPT !.pc = "upsert", !.items = items, !.retried = FALSE]

\* the request of the current page as the history keeps it: the page and `after` of
\* its URL, the status of the response (0 without one) and the number of items
\* the body decoded to
PageLogged(s, o, items) ==
    [s EXCEPT !.reqs = Append(@, [page |-> s.page, after |-> s.since,
                                  status |-> IF o.neterr THEN 0 ELSE o.status,
                                  decoded |-> ~o.neterr /\ o.status = 200 /\ o.json,
                                  n |-> IF ~o.neterr /\ o.status = 200 /\ o.json
                                        THEN Len(items) ELSE 0])]

SyncFetchPage(w) ==
    /\ sync[w].pc = "fetch"
    /\ \E o \in PageOutcomes :
        /\ o.status = 401 => unauthLeft > 0
        /\ unauthLeft' = IF o.status = 401 THEN unauthLeft - 1 ELSE unauthLeft
        /\ LET items == FeedPage(feed[sync[w].aid], sync[w].since, sync[w].page)
           IN sync' = [sync EXCEPT ![w] =
                SyncAfterPage([PageLogged(@, o, items) EXCEPT !.detail = PageErrorText(o)],
                              o, items)]
    /\ UNCHANGED <<now, athlete, workout, feed, lastUp, syncsLeft, editsLeft, tokenVars, fetchVars, prev, texts>>

\* the forced refresh after a 401 (lines 341-347)
SyncRefresh401(w) ==
    /\ sync[w].pc = "refresh401"
    /\ \E o \in TokenOutcomes(now, sync[w].refresh) :
        sync' = [sync EXCEPT ![w] =
            SyncAfterRefresh([sync[w] EXCEPT !.lastO = o,
                                !.credBefore = StoredCred(athlete, sync[w].aid),
                                !.detail = IF refreshStravaToken(o).ok THEN <<>>
                                           ELSE RefreshErrorText(o)],
                             refreshStravaToken(o), "401/refresh", "saveTok401")]
    /\ UNCHANGED <<now, athlete, workout, feed, lastUp, syncsLeft, editsLeft, tokenVars, fetchVars, unauthLeft, prev, texts>>

\* q.UpdateAthleteStravaTokens after the forced refresh, then `continue`
SyncSaveTokens401(w) ==
    /\ sync[w].pc = "saveTok401"
    /\ \/ /\ athlete' = UpdateAthleteStravaTokens(athlete, sync[w].aid, sync[w].access,
                                                  sync[w].refresh, sync[w].expiry)
          /\ sync' = [sync EXCEPT ![w].pc = "fetch", ![w].retried = TRUE,
                                   ![w].lastO = NoOutcome, ![w].credBefore = NoTok]
       \/ /\ \E x \in texts.db : sync' = [sync EXCEPT ![w] =
                    SyncFailWith([@ EXCEPT !.lastO = NoOutcome, !.credBefore = NoTok],
                                 "401/update tokens", "db", 0, x)]
          /\ UNCHANGED athlete
    /\ UNCHANGED <<now, workout, feed, lastUp, syncsLeft, editsLeft, tokenVars, fetchVars, unauthLeft, prev, texts>>

\* one pass of the loop over items (lines 373-397), and page++ after the last
SyncUpsert(w) ==
    /\ sync[w].pc = "upsert"
    /\ LET s == sync[w]
           r == UpsertParams(s.aid, Head(s.items))
           rest == Tail(s.items)
       IN \/ /\ workout' = UpsertWorkout(workout, r)
             /\ lastUp' = [lastUp EXCEPT ![<<r.athlete_id, r.source_id>>] =
                    [row |-> r, replaced |-> \E x \in workout : SameKey(x, r) /\ x # r]]
             /\ sync' = [sync EXCEPT ![w] =
                    IF rest = <<>>
                    THEN [s EXCEPT !.items = rest, !.ups = @ + 1, !.page = @ + 1,
                                   !.pc = "fetch"]
                    ELSE [s EXCEPT !.items = rest, !.ups = @ + 1]]
          \/ /\ \E x \in texts.db :
                    sync' = [sync EXCEPT ![w] = SyncFailWith(s, "upsert workout", "db", 0, x)]
             /\ UNCHANGED <<workout, lastUp>>
    /\ UNCHANGED <<now, athlete, feed, syncsLeft, editsLeft, tokenVars, fetchVars, unauthLeft, prev, texts>>

\* variant of SyncMark that stores the time the call started
SyncMark_WritesStartTime(w) ==
    /\ sync[w].pc = "mark"
    /\ \/ /\ athlete' = UpdateAthleteLastStravaSync(athlete, sync[w].aid, sync[w].startedAt)
          /\ sync' = [sync EXCEPT ![w].pc = "done"]
       \/ /\ \E x \in texts.db : sync' = [sync EXCEPT ![w] =
                    SyncFailWith(@, "update athlete last strava sync", "db", 0, x)]
          /\ UNCHANGED athlete
    /\ UNCHANGED <<now, workout, feed, lastUp, syncsLeft, editsLeft, tokenVars, fetchVars, unauthLeft, prev, texts>>

\* q.UpdateAthleteLastStravaSync with time.Now() (lines 401-409)
SyncMark(w) ==
    /\ sync[w].pc = "mark"
    /\ \/ /\ athlete' = UpdateAthleteLastStravaSync(athlete, sync[w].aid, now)
          /\ sync' = [sync EXCEPT ![w].pc = "done"]
       \/ /\ \E x \in texts.db : sync' = [sync EXCEPT ![w] =
                    SyncFailWith(@, "update athlete last strava sync", "db", 0, x)]
          /\ UNCHANGED athlete
    /\ UNCHANGED <<now, workout, feed, lastUp, syncsLeft, editsLeft, tokenVars, fetchVars, unauthLeft, prev, texts>>

\* the prefix fmt.Errorf puts before the wrapped error
ErrPrefix(kind) ==
    CASE kind = "get athlete" -> <<"get", "athlete", ":">>
      [] kind = "refresh strava token" -> <<"refresh", "strava", "token", ":">>
      [] kind = "update athlete strava tokens" -> <<"update", "athlete", "strava", "tokens", ":">>
      [] kind = "fetch strava activities" -> <<"fetch", "strava", "activities", ":">>
      [] kind = "401/refresh" -> <<"401/refresh", ":">>
      [] kind = "401/update tokens" -> <<"401/update", "tokens", ":">>
      [] kind = "unmarshal strava activities" -> <<"unmarshal", "strava", "activities", ":">>
      [] kind = "upsert workout" -> <<"upsert", "workout", ":">>
      [] kind = "update athlete last strava sync"
            -> <<"update", "athlete", "last", "strava", "sync", ":">>
      [] OTHER -> <<>>

\* strings.ToLower(err.Error()) of the error the call s returned
SyncErrorText(s) ==
    IF s.err = "strava activities status"
    THEN <<"strava", "activities", "status", StatusWord(s.status), ":">> \o s.detail
    ELSE ErrPrefix(s.err) \o s.detail

\* strings.Contains(text, marker)
Contains(text, marker) ==
    \E i \in 1..Len(text) :
        i + Len(marker) - 1 <= Len(text) /\ SubSeq(text, i, i + Len(marker) - 1) = marker

\* isRetryableError
isRetryableError(text) ==
    IF \/ Contains(text, <<"timeout">>)
       \/ Contains(text, <<"connection">>)
       \/ Contains(text, <<"network">>)
       \/ Contains(text, <<"dns">>)
    THEN TRUE
    ELSE IF Contains(text, <<"429">>) \/ Contains(text, <<"rate", "limit">>)
    THEN TRUE
    ELSE IF \/ Contains(text, <<"500">>)
            \/ Contains(text, <<"502">>)
            \/ Contains(text, <<"503">>)
            \/ Contains(text, <<"504">>)
    THEN TRUE
    ELSE IF Contains(text, <<"refresh", "strava", "token">>)
    THEN TRUE
    ELSE FALSE

\* the rows of the workout table of athlete a
WorkoutsOf(rows, a) == {r \in rows : r.athlete_id = a}

\* the handler after syncStravaForAthlete returned (lines 210-223): it returns the
\* error, which hands the job back for a retry, when isRetryableError, else nil
SyncReturn(w) ==
    /\ sync[w].pc = "done"
    /\ sync' = [sync EXCEPT ![w].pc = "handled",
                            ![w].requeue = (sync[w].err # ""
                                            /\ isRetryableError(SyncErrorText(sync[w])))]
    /\ prev' = IF prev[sync[w].aid].track
               THEN [prev EXCEPT ![sync[w].aid] =
                        [track |-> TRUE, ok |-> sync[w].err = "",
                         sinceUnix |-> sync[w].sinceUnix,
                         rows |-> WorkoutsOf(workout, sync[w].aid),
                         feed0 |-> sync[w].feed0]]
               ELSE prev
    /\ UNCHANGED <<now, athlete, workout, feed, lastUp, syncsLeft, editsLeft, tokenVars, fetchVars, unauthLeft, texts>>

\* a job whose payload is no JSON: json.Unmarshal fails and the handler returns the
\* error (lines 203-207)
JobMalformed(w) ==
    /\ sync[w].pc = "idle"
    /\ ens.pc = "idle"
    /\ syncsLeft > 0
    /\ syncsLeft' = syncsLeft - 1
    /\ sync' = [sync EXCEPT ![w] =
                [IdleSync EXCEPT !.pc = "handled", !.payload = "malformed", !.requeue = TRUE]]
    /\ UNCHANGED <<now, athlete, workout, feed, lastUp, editsLeft, tokenVars, fetchVars, unauthLeft, prev, texts>>

\* a job whose athlete_id is no UUID: uuid.MustParse panics (line 283); the server
\* recovers the panic of a handler and counts the attempt as failed, which hands the
\* job back for a retry
JobBadAthleteId(w) ==
    /\ sync[w].pc = "idle"
    /\ ens.pc = "idle"
    /\ syncsLeft > 0
    /\ syncsLeft' = syncsLeft - 1
    /\ sync' = [sync EXCEPT ![w] =
                [IdleSync EXCEPT !.pc = "handled", !.payload = "bad athlete id",
                                 !.requeue = TRUE]]
    /\ UNCHANGED <<now, athlete, workout, feed, lastUp, editsLeft, tokenVars, fetchVars, unauthLeft, prev, texts>>

\* the handler has returned; the worker takes the next job
JobEnd(w) ==
    /\ sync[w].pc = "handled"
    /\ sync' = [sync EXCEPT ![w] = IdleSync]
    /\ UNCHANGED <<now, athlete, workout, feed, lastUp, syncsLeft, editsLeft, tokenVars, fetchVars, unauthLeft, prev, texts>>

----------------------------------------------------------------------------
(* Client.EnsureTokens over ~/strava_token.json.  The CLI and the worker share
   no state; the model runs one call at a time. *)

NoFile == [exists |-> FALSE, access |-> NoTok.access, refresh |-> NoTok.refresh, expires_at |-> 0]

FileOf(tok) ==
    [exists |-> TRUE, access |-> tok.access, refresh |-> tok.refresh,
     expires_at |-> tok.expires_at]

IdleEns ==
    [pc |-> "idle", hasTok |-> FALSE, tok |-> NoTok, nowUnix |-> 0,
     token |-> NoTok.access, err |-> "",
     \* history of the call, read by the properties only
     file0 |-> NoFile, calls |-> 0, lastO |-> NoOutcome, lastTok |-> NoTok]

\* the branch EnsureTokens takes on what LoadTokens returned (lines 102-108, 134-138)
EnsAfterLoad(e, file, t) ==
    LET e1 == [e EXCEPT !.hasTok = file.exists, !.nowUnix = t, !.file0 = file,
                        !.tok = [access |-> file.access, refresh |-> file.refresh,
                                 expires_at |-> file.expires_at]]
    IN IF file.exists /\ file.refresh # NoTok.refresh
       THEN IF file.expires_at - t < EnsureRefreshMargin   \* tok.ExpiresAt-now < 120
            THEN [e1 EXCEPT !.pc = "post"]
            ELSE [e1 EXCEPT !.pc = "done", !.token = file.access]
       ELSE [e1 EXCEPT !.pc = "oauth"]

EnsStart ==
    /\ ens.pc = "idle"
    /\ \A w \in Workers : sync[w].pc = "idle"
    /\ callsLeft > 0
    /\ callsLeft' = callsLeft - 1
    /\ ens' = EnsAfterLoad(IdleEns, tokFile, now)
    /\ UNCHANGED <<now, syncVars, tokFile, fetchVars>>

\* the call after http.PostForm(TokenURL, form) came back with o (lines 115-128)
EnsAfterPost(e, o) ==
    IF o.neterr THEN [e EXCEPT !.pc = "done", !.err = "refresh token failed"]
    ELSE IF o.status # StatusOK THEN [e EXCEPT !.pc = "done", !.err = "refresh token failed"]
    ELSE IF ~o.body.json THEN [e EXCEPT !.pc = "done", !.err = "decode refresh token failed"]
    ELSE [e EXCEPT !.pc = "save",
                   !.tok = [access |-> o.body.access, refresh |-> o.body.refresh,
                            expires_at |-> o.body.expires_at],
                   !.lastTok = [access |-> o.body.access, refresh |-> o.body.refresh,
                                expires_at |-> o.body.expires_at]]

EnsPost ==
    /\ ens.pc = "post"
    /\ \E o \in TokenOutcomes(now, ens.tok.refresh) :
        ens' = EnsAfterPost([ens EXCEPT !.calls = @ + 1, !.lastO = o], o)
    /\ UNCHANGED <<now, syncVars, tokFile, callsLeft, fetchVars>>

\* c.SaveTokens(tok) and the return (lines 129-134); os.WriteFile truncates before
\* it writes, so a failed write leaves the old file or none that loads
EnsSave ==
    /\ ens.pc = "save"
    /\ \/ /\ tokFile' = FileOf(ens.tok)
          /\ ens' = [ens EXCEPT !.pc = "done", !.token = ens.tok.access]
       \/ /\ tokFile' \in {tokFile, NoFile}
          /\ ens' = [ens EXCEPT !.pc = "done", !.err = "save token failed"]
    /\ UNCHANGED <<now, syncVars, callsLeft, fetchVars>>

\* performOAuth: the interactive authorization, which fails or saves and returns
\* the tokens of the code exchange
EnsOAuth ==
    /\ ens.pc = "oauth"
    /\ \/ /\ ens' = [ens EXCEPT !.pc = "done", !.err = "oauth"]
          /\ UNCHANGED tokFile
       \/ LET nt == [access |-> <<"A", tokFile.refresh[2] + 1>>,
                     refresh |-> <<"R", tokFile.refresh[2] + 1>>,
                     expires_at |-> now + TokenLifetime]
          IN /\ tokFile' = FileOf(nt)
             /\ ens' = [ens EXCEPT !.pc = "done", !.token = nt.access]
    /\ UNCHANGED <<now, syncVars, callsLeft, fetchVars>>

EnsReturn ==
    /\ ens.pc = "done"
    /\ ens' = IdleEns
    /\ UNCHANGED <<now, syncVars, tokFile, callsLeft, fetchVars>>

----------------------------------------------------------------------------
(* The file caches *)

CacheKeys == {"k1", "k2"}
ETags == {"", "v1", "v2"}

\* B1 and B2 are JSON objects as the upstream sends them, on one line; B1i and B2i
\* are the same documents as json.MarshalIndent lays them out inside an entry.
\* Shape and the error body E are JSON scalars, of another shape than out, which
\* have one layout only; Junk is no JSON.
\* json.MarshalIndent of the json.RawMessage body of an entry
Indented(b) == IF b = "B1" THEN "B1i" ELSE IF b = "B2" THEN "B2i" ELSE b

\* the document a body holds, whatever its layout
JsonDoc(b) == IF b = "B1i" THEN "B1" ELSE IF b = "B2i" THEN "B2" ELSE b

\* json.Unmarshal(body, out): B1 and B2 decode, to V1 and V2
DecodedValue(b) == IF JsonDoc(b) = "B1" THEN "V1" ELSE IF JsonDoc(b) = "B2" THEN "V2" ELSE ""
Decodes(b) == JsonDoc(b) \in {"B1", "B2"}
ValidJSON(b) == JsonDoc(b) \in {"B1", "B2", "Shape", "E"}

NoEntry == [st |-> "none", etag |-> "", fetched_at |-> 0, body |-> ""]
CorruptEntry == [st |-> "corrupt", etag |-> "", fetched_at |-> 0, body |-> ""]
NewEntry(etag, body, t) == [st |-> "ok", etag |-> etag, fetched_at |-> t, body |-> body]

\* variant of FileCache.Read for which an entry exactly maxAge old has expired
FileCacheRead_ExpiresAtMaxAge(file, maxAge, t) ==
    IF file.st # "ok" THEN [nil |-> TRUE, found |-> FALSE, entry |-> NoEntry]
    ELSE IF maxAge > 0 /\ t - file.fetched_at >= maxAge
        THEN [nil |-> FALSE, found |-> FALSE, entry |-> file]
    ELSE [nil |-> FALSE, found |-> TRUE, entry |-> file]

\* FileCache.Read: (nil, false) without a readable file, (entry, false) when expired
FileCacheRead(file, maxAge, t) ==
    IF file.st # "ok" THEN [nil |-> TRUE, found |-> FALSE, entry |-> NoEntry]
    ELSE IF maxAge > 0 /\ t - file.fetched_at > maxAge
        THEN [nil |-> FALSE, found |-> FALSE, entry |-> file]
    ELSE [nil |-> FALSE, found |-> TRUE, entry |-> file]

\* variant of FileCache.Write that stores no ETag
FileCacheWrite_DropsETag(file, etag, body, t, disk) ==
    IF ~ValidJSON(body) THEN file
    ELSE IF disk # "ok" THEN file
    ELSE NewEntry("", Indented(body), t)

\* FileCache.Write: FetchedAt = now; a body that is no JSON fails to marshal; the
\* rename makes a failed write leave the old file
FileCacheWrite(file, etag, body, t, disk) ==
    IF ~ValidJSON(body) THEN file
    ELSE IF disk # "ok" THEN file
    ELSE NewEntry(etag, Indented(body), t)

\* variant of readCache that never looks at the age of the entry
readCache_IgnoresMaxAge(file, maxAge, t) ==
    IF file.st # "ok" THEN [err |-> TRUE, entry |-> NoEntry]
    ELSE [err |-> FALSE, entry |-> file]

\* readCache of cache.go: an error without a readable file and when stale
readCache(file, maxAge, t) ==
    IF file.st # "ok" THEN [err |-> TRUE, entry |-> NoEntry]
    ELSE IF maxAge > 0 /\ t - file.fetched_at > maxAge THEN [err |-> TRUE, entry |-> NoEntry]
    ELSE [err |-> FALSE, entry |-> file]

\* writeCache of cache.go: the marshal error is dropped, so a body that is no JSON
\* is written as an empty file
writeCache(file, etag, body, t, disk) ==
    IF disk # "ok" THEN file
    ELSE IF ~ValidJSON(body) THEN CorruptEntry
    ELSE NewEntry(etag, Indented(body), t)

\* hevy's Cache.Read (HevyAdapter.Read, fileCache.Read)
HevyCacheRead(file, ttl, t) ==
    IF file.st # "ok" THEN [ok |-> FALSE, body |-> "", etag |-> ""]
    ELSE IF ttl > 0 /\ t - file.fetched_at > ttl THEN [ok |-> FALSE, body |-> "", etag |-> ""]
    ELSE [ok |-> TRUE, body |-> file.body, etag |-> file.etag]

\* hevy's Cache.ETag
HevyCacheETag(file, t) ==
    IF HevyCacheRead(file, 0, t).ok THEN HevyCacheRead(file, 0, t).etag ELSE ""

\* hevy's Cache.Write: no error is returned; fileCache.Write writes in place, so a
\* failed write can leave a file that does not parse; the body is a []byte, which
\* the file holds in base64, byte for byte
HevyCacheWrite(file, etag, body, t, disk) ==
    IF disk = "ok" THEN NewEntry(etag, body, t)
    ELSE IF disk = "torn" THEN CorruptEntry
    ELSE file

DiskOutcomes == {"ok", "fail", "torn"}

----------------------------------------------------------------------------
(* The cache store on its own: Read and Write as the programs call them.  impl
   names the store: "api" is FileCache behind StravaAdapter, "main" is
   readCache/writeCache of cache.go, "hevy" is hevy's fileCache. *)

\* no operation yet
NoOp ==
    [kind |-> "none", key |-> "", at |-> 0,
     \* the last Write: what the caller passed, and whether and when an entry was stored
     etag |-> "", body |-> "", given |-> 0, disk |-> "", stored |-> FALSE, storedAt |-> 0,
     written |-> FALSE,
     \* the last Read: its max age and what it returned
     maxAge |-> 0, found |-> FALSE, rEtag |-> "", rBody |-> "", afterWrite |-> FALSE,
     \* what os.ReadFile of the Read found: "none", "corrupt" or "ok"
     saw |-> ""]

\* no Write under way
NoWriter == [pc |-> "idle", key |-> "", etag |-> "", body |-> ""]

\* StravaAdapter.ReadCache over FileCache.Read: the entry only when it exists
ReadCache(file, maxAge, t) ==
    LET r == FileCacheRead(file, maxAge, t)
    IN IF r.found THEN [found |-> TRUE, etag |-> r.entry.etag, body |-> r.entry.body]
       ELSE [found |-> FALSE, etag |-> "", body |-> ""]

\* variant of WriteCache whose store keeps the FetchedAt of the caller
WriteCache_KeepsFetchedAt(file, se, t, disk) ==
    IF ~ValidJSON(se.body) \/ disk # "ok" THEN file
    ELSE NewEntry(se.etag, Indented(se.body), se.fetched_at)

\* StravaAdapter.WriteCache over FileCache.Write: se.FetchedAt is copied into the
\* entry and Write overwrites it with time.Now()
WriteCache(file, se, t, disk) == FileCacheWrite(file, se.etag, se.body, t, disk)

\* Read of the store of impl
StoreRead(file, maxAge, t) ==
    IF impl = "api" THEN ReadCache(file, maxAge, t)
    ELSE IF impl = "main"
        THEN LET r == readCache(file, maxAge, t)
             IN [found |-> ~r.err, etag |-> r.entry.etag, body |-> r.entry.body]
    ELSE LET r == HevyCacheRead(file, maxAge, t)
         IN [found |-> r.ok, etag |-> r.etag, body |-> r.body]

\* Write of the store of impl; hevy's Write takes no fetched_at
StoreWrite(file, se, t, disk) ==
    IF impl = "api" THEN WriteCache(file, se, t, disk)
    ELSE IF impl = "main" THEN writeCache(file, se.etag, se.body, t, disk)
    ELSE HevyCacheWrite(file, se.etag, se.body, t, disk)

CacheWrite(k, etag, body, given, disk) ==
    /\ fetch.pc = "idle"
    /\ LET se == [etag |-> etag, body |-> body, fetched_at |-> given]
           file == StoreWrite(cache[k], se, now, disk)
           \* whether the Write puts a new file under the key: the disk takes it
           \* and, for the stores that marshal a json.RawMessage, the body is JSON
           stored == IF impl = "hevy" THEN disk = "ok"
                     ELSE disk = "ok" /\ ValidJSON(se.body)
       IN /\ cache' = [cache EXCEPT ![k] = file]
          /\ op' = [op EXCEPT !.kind = "write", !.key = k, !.at = now,
                              !.etag = etag, !.body = body, !.given = given, !.disk = disk,
                              !.stored = stored,
                              !.storedAt = IF stored THEN now ELSE @,
                              !.written = @ \/ stored,
                              !.maxAge = 0, !.found = FALSE, !.rEtag = "", !.rBody = "",
                              !.afterWrite = FALSE]
    /\ UNCHANGED <<now, syncVars, tokenVars, fetch, fetchesLeft, impl, writer, keyed,
                   registry, zones>>

CacheRead(k, maxAge) ==
    /\ fetch.pc = "idle"
    /\ LET r == StoreRead(cache[k], maxAge, now)
       IN op' = [op EXCEPT !.kind = "read", !.key = k, !.at = now,
                           !.maxAge = maxAge, !.found = r.found,
                           !.rEtag = r.etag, !.rBody = r.body, !.saw = cache[k].st,
                           !.afterWrite = (op.kind = "write" /\ op.key = k /\ op.at = now)]
    /\ UNCHANGED <<now, syncVars, tokenVars, cache, fetch, fetchesLeft, impl, writer, keyed,
                   registry, zones>>

\* A Write step by step, for readers that run while it does.  FileCache.Write and
\* writeCache fill a temporary file and rename it over the entry; hevy's
\* fileCache.Write calls os.WriteFile on the entry itself, which truncates the file
\* and then writes into it.
\* the Write has created the file it writes into
WriteBegin(k, etag, body) ==
    /\ writer.pc = "idle"
    /\ writer' = [pc |-> "open", key |-> k, etag |-> etag, body |-> body]
    /\ cache' = [cache EXCEPT ![k] = IF impl = "hevy" THEN CorruptEntry ELSE @]
    /\ UNCHANGED <<now, syncVars, tokenVars, fetch, fetchesLeft, impl, op, keyed, registry, zones>>

\* the Write has written every byte and, where it does, renamed the file
WriteEnd ==
    /\ writer.pc = "open"
    /\ cache' = [cache EXCEPT ![writer.key] =
                    StoreWrite(@, [etag |-> writer.etag, body |-> writer.body, fetched_at |-> 0],
                               now, "ok")]
    /\ writer' = NoWriter
    /\ UNCHANGED <<now, syncVars, tokenVars, fetch, fetchesLeft, impl, op, keyed, registry, zones>>

\* the process of the Write dies before the last byte
WriteCrash ==
    /\ writer.pc = "open"
    /\ writer' = NoWriter
    /\ UNCHANGED <<now, syncVars, tokenVars, cache, fetch, fetchesLeft, impl, op, keyed,
                   registry, zones>>

----------------------------------------------------------------------------
(* The cache keys *)

\* A string is the sequence of its characters; ByteOf is the byte sort.Strings
\* compares them by.
ByteOf(c) ==
    CASE c = "&" -> 38
      [] c = "/" -> 47
      [] c = "=" -> 61
      [] c = "_" -> 95
      [] c = "a" -> 97
      [] c = "b" -> 98
      [] OTHER -> 0

RECURSIVE StrLess(_, _)
StrLess(s, t) ==
    IF s = <<>> THEN t # <<>>
    ELSE IF t = <<>> THEN FALSE
    ELSE IF s[1] = t[1] THEN StrLess(Tail(s), Tail(t))
    ELSE ByteOf(s[1]) < ByteOf(t[1])

RECURSIVE InsertSorted(_, _)
InsertSorted(x, s) ==
    IF s = <<>> THEN <<x>>
    ELSE IF StrLess(s[1], x) THEN <<s[1]>> \o InsertSorted(x, Tail(s))
    ELSE <<x>> \o s

SortStrings_KeepsOrder(parts) == parts

RECURSIVE SortStrings(_)
SortStrings(parts) ==
    IF parts = <<>> THEN <<>>
    ELSE InsertSorted(parts[1], SortStrings(Tail(parts)))

ReplaceAll(s, old, new) == [i \in 1..Len(s) |-> IF s[i] = old THEN new ELSE s[i]]

RECURSIVE Join(_, _)
Join(parts, sep) ==
    IF parts = <<>> THEN <<>>
    ELSE IF Len(parts) = 1 THEN parts[1]
    ELSE parts[1] \o sep \o Join(Tail(parts), sep)

\* The parts k+"="+v in the order the iteration over the map gives them; order is
\* that iteration, a sequence of the map's <<k, v>> pairs.
Parts(order) == [i \in 1..Len(order) |-> order[i][1] \o <<"=">> \o order[i][2]]

\* the iterations a map can give: every order of its pairs
Orders(params) ==
    {o \in [1..Cardinality(params) -> params] :
        \A i, j \in 1..Cardinality(params) : o[i] = o[j] => i = j}

\* keyFor of main
keyFor(path, order) ==
    LET parts == SortStrings(Parts(order))
        p == ReplaceAll(path, "/", "_")
    IN IF Len(parts) > 0
       THEN p \o <<"_", "_">> \o Join(parts, <<"_", "_">>) \o <<".", "j", "s", "o", "n">>
       ELSE p \o <<".", "j", "s", "o", "n">>

HashOver == 200

\* The digest of a long key is written as a string that differs whenever the keys do.
sanitizeKey(key) ==
    IF Len(key) > HashOver
    THEN <<"h", "a", "s", "h", "_", "md5(">> \o key \o <<")">>
    ELSE [i \in 1..Len(key) |->
            IF key[i] \in {":", "?", "&", "=", "#", "<", ">", "|", "*", "\""}
            THEN "_" ELSE key[i]]

\* FileCache.KeyFor
KeyFor(path, order) ==
    LET parts == SortStrings(Parts(order))
        cleanPath == ReplaceAll(path, "/", "_")
    IN IF Len(parts) > 0
       THEN sanitizeKey(cleanPath \o <<"_", "_">> \o Join(parts, <<"_", "_">>))
                \o <<".", "j", "s", "o", "n">>
       ELSE sanitizeKey(cleanPath) \o <<".", "j", "s", "o", "n">>

\* the requests: short paths, one path longer than the hashing limit, and maps of
\* none, one and two parameters
Requests ==
    [path : {<<"/", "a">>, <<"_", "a">>, <<"/", "a", "/", "b">>,
             [i \in 1..(HashOver + 1) |-> "a"]},
     params : { {},
                {<< <<"a">>, <<"b">> >>},
                {<< <<"a">>, <<"b">> >>, << <<"b">>, <<"a">> >>},
                {<< <<"a">>, <<"b", "_", "_", "b", "=", "a">> >>},
                {<< <<"a">>, <<"b", "=", "a">> >>},
                {<< <<"a", "=", "b">>, <<"a">> >>},
                {<< <<"a">>, <<"b", "_", "a">> >>},
                {<< <<"a">>, <<"b", "&", "a">> >>} }]

NoKeyed == [req |-> <<>>, order |-> <<>>, key |-> <<>>, done |-> <<FALSE, FALSE>>]

\* one call of KeyFor for the i-th request, the map iterating in the given order
KeyForCall(i, order) ==
    /\ keyed.req # <<>>
    /\ order \in Orders(keyed.req[i].params)
    /\ keyed' = [keyed EXCEPT !.order[i] = order,
                              !.key[i] = IF impl = "main"
                                         THEN keyFor(keyed.req[i].path, order)
                                         ELSE KeyFor(keyed.req[i].path, order),
                              !.done[i] = TRUE]
    /\ UNCHANGED <<now, syncVars, tokenVars, cache, fetch, fetchesLeft, impl, op, writer,
                   registry, zones>>

----------------------------------------------------------------------------
(* The provider Registry *)

\* A provider is its Name() and the identity of the object.
NoRegistry == [providers |-> <<>>, regs |-> <<>>, list |-> <<>>, listed |-> FALSE]

MaxRegs == 3

\* variant of Register that keeps the provider a name already has
Register_KeepsFirst(providers, p) ==
    [n \in DOMAIN providers \cup {p.name} |->
        IF n \in DOMAIN providers THEN providers[n] ELSE p]

\* r.providers[provider.Name()] = provider
Register(providers, p) ==
    [n \in DOMAIN providers \cup {p.name} |-> IF n = p.name THEN p ELSE providers[n]]

\* provider, exists := r.providers[name]
Get(providers, name) ==
    IF name \in DOMAIN providers
    THEN [provider |-> providers[name], exists |-> TRUE]
    ELSE [provider |-> [name |-> "", id |-> 0], exists |-> FALSE]

RegistryRegister(p) ==
    /\ Len(registry.regs) < MaxRegs
    /\ registry' = [registry EXCEPT !.providers = Register(@, p),
                                    !.regs = Append(@, p),
                                    !.list = <<>>, !.listed = FALSE]
    /\ UNCHANGED <<now, syncVars, tokenVars, cache, fetch, fetchesLeft, impl, op, writer,
                   keyed, zones>>

\* List: the names in the order the iteration over the map gives them
RegistryList(order) ==
    /\ order \in Orders(DOMAIN registry.providers)
    /\ registry' = [registry EXCEPT !.list = order, !.listed = TRUE]
    /\ UNCHANGED <<now, syncVars, tokenVars, cache, fetch, fetchesLeft, impl, op, writer,
                   keyed, zones>>

----------------------------------------------------------------------------
(* The heart-rate zones *)

NoZones == [hr |-> <<>>, hrmax |-> 0, z |-> <<0, 0, 0, 0, 0>>, done |-> FALSE]

MaxSamples == 2

\* variant of ComputeZones that counts a sample on a cut in the lower zone
RECURSIVE ComputeZones_CutInLowerZone(_, _)
ComputeZones_CutInLowerZone(hr, hrmax) ==
    IF hr = <<>> THEN <<0, 0, 0, 0, 0>>
    ELSE LET z == ComputeZones_CutInLowerZone(Tail(hr), hrmax)
             v == Head(hr)
             k == IF 100 * v <= 70 * hrmax THEN 1
                  ELSE IF 100 * v <= 80 * hrmax THEN 2
                  ELSE IF 100 * v <= 88 * hrmax THEN 3
                  ELSE IF 100 * v <= 95 * hrmax THEN 4
                  ELSE 5
         IN IF v <= 0 THEN z ELSE [z EXCEPT ![k] = @ + 1]

\* ComputeZones of package strava.  The samples and hrmax are whole numbers;
\* r < cut, with r == v / float64(hrmax), is then 100 * v < pct * hrmax for a
\* positive hrmax, false for hrmax 0 (r is +Inf) and true for a negative hrmax.
RECURSIVE ComputeZones(_, _)
ComputeZones(hr, hrmax) ==
    IF hr = <<>> THEN <<0, 0, 0, 0, 0>>
    ELSE LET z == ComputeZones(Tail(hr), hrmax)
             v == Head(hr)
             below(pct) == IF hrmax > 0 THEN 100 * v < pct * hrmax ELSE hrmax < 0
             k == IF below(70) THEN 1
                  ELSE IF below(80) THEN 2
                  ELSE IF below(88) THEN 3
                  ELSE IF below(95) THEN 4
                  ELSE 5
         IN IF v <= 0 THEN z ELSE [z EXCEPT ![k] = @ + 1]

\* computeZones of main
RECURSIVE computeZones(_, _)
computeZones(hr, hrmax) ==
    IF hr = <<>> THEN <<0, 0, 0, 0, 0>>
    ELSE LET z == computeZones(Tail(hr), hrmax)
             v == Head(hr)
             below(pct) == IF hrmax > 0 THEN 100 * v < pct * hrmax ELSE hrmax < 0
             k == IF below(70) THEN 1
                  ELSE IF below(80) THEN 2
                  ELSE IF below(88) THEN 3
                  ELSE IF below(95) THEN 4
                  ELSE 5
         IN IF v <= 0 THEN z ELSE [z EXCEPT ![k] = @ + 1]

ZonesCall ==
    /\ ~zones.done
    /\ zones' = [zones EXCEPT !.done = TRUE,
                              !.z = IF impl = "main" THEN computeZones(zones.hr, zones.hrmax)
                                    ELSE ComputeZones(zones.hr, zones.hrmax)]
    /\ UNCHANGED <<now, syncVars, tokenVars, cache, fetch, fetchesLeft, impl, op, writer,
                   keyed, registry>>

----------------------------------------------------------------------------
(* The cached GETs *)

OkResult(v) == [ok |-> TRUE, val |-> v, err |-> "", status |-> 0, body |-> ""]
ErrResult(kind, status, body) ==
    [ok |-> FALSE, val |-> "", err |-> kind, status |-> status, body |-> body]

\* json.Unmarshal(body, out) as the result of the call
UnmarshalResult(b) == IF Decodes(b) THEN OkResult(DecodedValue(b)) ELSE ErrResult("decode", 0, "")

IdleFetch ==
    [pc |-> "idle", key |-> "", ttl |-> 0, noCache |-> FALSE, hasCache |-> FALSE,
     inm |-> "", entry |-> NoEntry,
     res |-> [ok |-> FALSE, val |-> "", err |-> "", status |-> 0, body |-> ""],
     \* history of the call, read by the properties only
     reqs |-> <<>>, cache0 |-> NoEntry, t0 |-> 0, disk |-> ""]

\* what one GET can come back with; 304 answers only a request that carries
\* If-None-Match
HttpOutcomes(inm) ==
    {[neterr |-> TRUE, status |-> 0, etag |-> "", body |-> ""]}
    \cup {[neterr |-> FALSE, status |-> 200, etag |-> e, body |-> b] : e \in ETags,
                                                                   b \in {"B1", "B2", "Shape", "Junk"}}
    \cup {[neterr |-> FALSE, status |-> st, etag |-> "", body |-> "E"] : st \in {404, 500}}
    \cup (IF inm # "" THEN {[neterr |-> FALSE, status |-> 304, etag |-> "", body |-> ""]} ELSE {})

\* the round trip as the history keeps it
Logged(f, o) ==
    [f EXCEPT !.reqs = Append(@, [inm |-> f.inm, status |-> o.status, etag |-> o.etag,
                                  body |-> o.body])]

\* Client.apiGETCached up to its first request (lines 84-99): the fresh read, then
\* the read at any age for an ETag
ApiAfterReads(f, file, t) ==
    LET fresh == FileCacheRead(file, f.ttl, t)
        any == FileCacheRead(file, 0, t)
    IN IF ~f.noCache /\ f.hasCache /\ fresh.found /\ fresh.entry.body # ""
       THEN [f EXCEPT !.pc = "done", !.res = UnmarshalResult(fresh.entry.body)]
       ELSE IF f.hasCache /\ ~any.nil /\ any.entry.etag # ""
       THEN [f EXCEPT !.pc = "cond", !.inm = any.entry.etag, !.entry = any.entry]
       ELSE [f EXCEPT !.pc = "normal"]

\* variant of the conditional request that goes on to the normal fetch after a 304
ApiAfterCond_AlwaysEscalates(f, o) == [f EXCEPT !.pc = "normal"]

\* the conditional request of lines 100-110
ApiAfterCond(f, o) ==
    IF ~o.neterr /\ o.status = 304
    THEN [f EXCEPT !.pc = "done", !.res = UnmarshalResult(f.entry.body)]
    ELSE [f EXCEPT !.pc = "normal"]

\* variant of the normal fetch that returns the error of a failed cache write
ApiAfterNormal_WriteErrorAborts(f, o) ==
    IF o.neterr THEN [f EXCEPT !.pc = "done", !.res = ErrResult("transport", 0, "")]
    ELSE IF o.status >= 300
        THEN [f EXCEPT !.pc = "done", !.res = ErrResult("status", o.status, o.body)]
    ELSE IF f.hasCache /\ f.disk # "ok"
        THEN [f EXCEPT !.pc = "done", !.res = ErrResult("cache write", 0, "")]
    ELSE [f EXCEPT !.pc = "done", !.res = UnmarshalResult(o.body)]

\* the normal fetch of lines 115-138; req is the request of the conditional
\* attempt, header included
ApiAfterNormal(f, o) ==
    IF o.neterr THEN [f EXCEPT !.pc = "done", !.res = ErrResult("transport", 0, "")]
    ELSE IF o.status >= 300
        THEN [f EXCEPT !.pc = "done", !.res = ErrResult("status", o.status, o.body)]
    ELSE [f EXCEPT !.pc = "done", !.res = UnmarshalResult(o.body)]

\* variant of the normal fetch that writes the cache before it checks the status
ApiCacheAfterNormal_NoStatusCheck(file, f, o, t, disk) ==
    IF o.neterr THEN file
    ELSE IF f.hasCache THEN FileCacheWrite(file, o.etag, o.body, t, disk)
    ELSE file

\* the cache file after the normal fetch of apiGETCached
ApiCacheAfterNormal(file, f, o, t, disk) ==
    IF o.neterr \/ o.status >= 300 THEN file
    ELSE IF f.hasCache THEN FileCacheWrite(file, o.etag, o.body, t, disk)
    ELSE file

\* stravaApiGETCached of main.go up to its first request (lines 268-278)
MainAfterReads(f, file, t) ==
    LET fresh == readCache(file, f.ttl, t)
        any == readCache(file, 0, t)
    IN IF ~f.noCache /\ ~fresh.err /\ fresh.entry.body # ""
       THEN [f EXCEPT !.pc = "done", !.res = UnmarshalResult(fresh.entry.body)]
       ELSE IF ~any.err /\ any.entry.etag # ""
       THEN [f EXCEPT !.pc = "cond", !.inm = any.entry.etag, !.entry = any.entry]
       ELSE [f EXCEPT !.pc = "normal"]

\* the conditional request of lines 279-289
MainAfterCond(f, o) ==
    IF ~o.neterr /\ o.status = 304
    THEN [f EXCEPT !.pc = "done", !.res = UnmarshalResult(f.entry.body)]
    ELSE [f EXCEPT !.pc = "normal"]

\* the normal fetch of lines 293-314
MainAfterNormal(f, o) ==
    IF o.neterr THEN [f EXCEPT !.pc = "done", !.res = ErrResult("transport", 0, "")]
    ELSE IF o.status >= 300
        THEN [f EXCEPT !.pc = "done", !.res = ErrResult("status", o.status, o.body)]
    ELSE [f EXCEPT !.pc = "done", !.res = UnmarshalResult(o.body)]

\* the cache file after the normal fetch of stravaApiGETCached
MainCacheAfterNormal(file, f, o, t, disk) ==
    IF o.neterr \/ o.status >= 300 THEN file
    ELSE writeCache(file, o.etag, o.body, t, disk)

\* Client.doJSON up to its request (lines 90-101)
HevyAfterReads(f, file, t) ==
    LET fresh == HevyCacheRead(file, f.ttl, t)
    IN IF f.hasCache /\ fresh.ok /\ Decodes(fresh.body)
       THEN [f EXCEPT !.pc = "done", !.res = UnmarshalResult(fresh.body)]
       ELSE IF f.hasCache /\ HevyCacheETag(file, t) # ""
       THEN [f EXCEPT !.pc = "do", !.inm = HevyCacheETag(file, t)]
       ELSE [f EXCEPT !.pc = "do"]

\* the request of doJSON and the switch on its status (lines 103-134)
HevyAfterDo(f, o, file, t) ==
    IF o.neterr THEN [f EXCEPT !.pc = "done", !.res = ErrResult("transport", 0, "")]
    ELSE IF o.status = 304
        THEN IF f.hasCache /\ HevyCacheRead(file, 0, t).ok
             THEN [f EXCEPT !.pc = "done", !.res = UnmarshalResult(HevyCacheRead(file, 0, t).body)]
             ELSE [f EXCEPT !.pc = "done", !.res = ErrResult("304 but no cached body", 0, "")]
    ELSE IF o.status = 200
        THEN [f EXCEPT !.pc = "done", !.res = UnmarshalResult(o.body)]
    ELSE [f EXCEPT !.pc = "done", !.res = ErrResult("status", o.status, o.body)]

\* the cache file after the request of doJSON
HevyCacheAfterDo(file, f, o, t, disk) ==
    IF ~o.neterr /\ o.status = 200 /\ Decodes(o.body) /\ f.hasCache
    THEN HevyCacheWrite(file, o.etag, o.body, t, disk)
    ELSE file

Ttls == {0, FetchTtl}

\* a cached GET begins: the key of (path, params), the ttl and the client's
\* NoCache and Cache settings
FetchStart(k, ttl, nc, hc) ==
    /\ fetch.pc = "idle"
    /\ fetchesLeft > 0
    /\ impl = "main" => hc
    /\ impl = "hevy" => ~nc
    /\ fetchesLeft' = fetchesLeft - 1
    /\ LET f == [IdleFetch EXCEPT !.key = k, !.ttl = ttl, !.noCache = nc, !.hasCache = hc,
                                  !.cache0 = cache[k], !.t0 = now]
       IN fetch' = IF impl = "api" THEN ApiAfterReads(f, cache[k], now)
                   ELSE IF impl = "main" THEN MainAfterReads(f, cache[k], now)
                   ELSE HevyAfterReads(f, cache[k], now)
    /\ UNCHANGED <<now, syncVars, tokenVars, cache, impl, op, writer, keyed, registry, zones>>

\* the conditional request of apiGETCached and stravaApiGETCached
FetchCond ==
    /\ fetch.pc = "cond"
    /\ \E o \in HttpOutcomes(fetch.inm) :
        fetch' = IF impl = "api" THEN ApiAfterCond(Logged(fetch, o), o)
                 ELSE MainAfterCond(Logged(fetch, o), o)
    /\ UNCHANGED <<now, syncVars, tokenVars, cache, fetchesLeft, impl, op, writer, keyed,
                   registry, zones>>

\* the normal fetch of apiGETCached and stravaApiGETCached
FetchNormal ==
    /\ fetch.pc = "normal"
    /\ \E o \in HttpOutcomes(fetch.inm), disk \in DiskOutcomes :
        LET f == [Logged(fetch, o) EXCEPT !.disk = disk]
        IN /\ fetch' = IF impl = "api" THEN ApiAfterNormal(f, o) ELSE MainAfterNormal(f, o)
           /\ cache' = [cache EXCEPT ![fetch.key] =
                    IF impl = "api" THEN ApiCacheAfterNormal(@, f, o, now, disk)
                    ELSE MainCacheAfterNormal(@, f, o, now, disk)]
    /\ UNCHANGED <<now, syncVars, tokenVars, fetchesLeft, impl, op, writer, keyed, registry, zones>>

\* the request of doJSON
FetchDo ==
    /\ fetch.pc = "do"
    /\ \E o \in HttpOutcomes(fetch.inm), disk \in DiskOutcomes :
        LET f == [Logged(fetch, o) EXCEPT !.disk = disk]
        IN /\ fetch' = HevyAfterDo(f, o, cache[fetch.key], now)
           /\ cache' = [cache EXCEPT ![fetch.key] = HevyCacheAfterDo(@, f, o, now, disk)]
    /\ UNCHANGED <<now, syncVars, tokenVars, fetchesLeft, impl, op, writer, keyed, registry, zones>>

FetchReturn ==
    /\ fetch.pc = "done"
    /\ fetch' = IdleFetch
    /\ UNCHANGED <<now, syncVars, tokenVars, cache, fetchesLeft, impl, op, writer, keyed,
                   registry, zones>>

----------------------------------------------------------------------------
(* The worker: the athlete table as the out-of-band authorization left it *)

InitExpiries == {StartTime + 100, StartTime + 120}

InitAthlete ==
    [a \in Athletes |->
        [access |-> <<"A", 1>>, refresh |-> <<"R", 1>>, expiry |-> StartTime + 7200,
         hasSync |-> FALSE, lastSync |-> 0]]

InitCommon ==
    /\ now = StartTime
    /\ workout = {}
    /\ feed = InitFeed
    /\ sync = [w \in Workers |-> IdleSync]
    /\ lastUp = [k \in Athletes \X ActivityIds |-> NoUpsert]
    /\ editsLeft = MaxEdits

Init ==
    /\ InitCommon
    /\ \E e \in InitExpiries : athlete = [InitAthlete EXCEPT !["a1"].expiry = e]
    /\ syncsLeft = MaxSyncs
    /\ tokFile = NoFile
    /\ ens = IdleEns
    /\ callsLeft = 0
    /\ cache = [k \in CacheKeys |-> NoEntry]
    /\ fetch = IdleFetch
    /\ fetchesLeft = 0
    /\ impl = "api"
    /\ unauthLeft = Max401
    /\ prev = [a \in Athletes |-> NoPrev]
    /\ texts = PlainTexts
    /\ op = NoOp
    /\ writer = NoWriter
    /\ keyed = NoKeyed
    /\ registry = NoRegistry
    /\ zones = NoZones

NextSync ==
    \/ Tick
    \/ \E a \in Athletes, i \in ActivityIds : UpstreamEdit(a, i)
    \/ \E w \in Solo, a \in Athletes, su \in SinceInputs : SyncStart(w, a, su)
    \/ \E w \in Solo : SyncTokenValid(w)
    \/ \E w \in Solo : SyncRefresh(w)
    \/ \E w \in Solo : SyncSaveTokens(w)
    \/ \E w \in Solo : SyncComputeSince(w)
    \/ \E w \in Solo : SyncFetchPage(w)
    \/ \E w \in Solo : SyncRefresh401(w)
    \/ \E w \in Solo : SyncSaveTokens401(w)
    \/ \E w \in Solo : SyncUpsert(w)
    \/ \E w \in Solo : SyncMark(w)
    \/ \E w \in Solo : SyncReturn(w)
    \/ \E w \in Solo : JobEnd(w)

Spec == Init /\ [][NextSync]_vars

(* One sync job over a feed that loses activities while the job pages through it *)

NextChurn ==
    \/ Tick
    \/ \E i \in ActivityIds : UpstreamDelete("a1", i)
    \/ \E su \in SinceInputs : SyncStart("w1", "a1", su)
    \/ \E w \in Solo : SyncTokenValid(w)
    \/ \E w \in Solo : SyncRefresh(w)
    \/ \E w \in Solo : SyncSaveTokens(w)
    \/ \E w \in Solo : SyncComputeSince(w)
    \/ \E w \in Solo : SyncFetchPage(w)
    \/ \E w \in Solo : SyncRefresh401(w)
    \/ \E w \in Solo : SyncSaveTokens401(w)
    \/ \E w \in Solo : SyncUpsert(w)
    \/ \E w \in Solo : SyncMark(w)
    \/ \E w \in Solo : SyncReturn(w)
    \/ \E w \in Solo : JobEnd(w)

SpecChurn == Init /\ [][NextChurn]_vars

(* The token lifecycle in both programs: one sync job and the CLI's EnsureTokens *)

InitFiles ==
    {NoFile,
     [exists |-> TRUE, access |-> <<"A", 1>>, refresh |-> NoTok.refresh,
      expires_at |-> StartTime + 100]}
    \cup {[exists |-> TRUE, access |-> <<"A", 1>>, refresh |-> <<"R", 1>>, expires_at |-> e] :
            e \in InitExpiries}

InitToken ==
    /\ now = StartTime
    /\ workout = {}
    /\ feed = InitFeed
    /\ sync = [w \in Workers |-> IdleSync]
    /\ lastUp = [k \in Athletes \X ActivityIds |-> NoUpsert]
    /\ editsLeft = 0
    /\ \E e \in InitExpiries : athlete = [InitAthlete EXCEPT !["a1"].expiry = e]
    /\ syncsLeft = 1
    /\ tokFile \in InitFiles
    /\ ens = IdleEns
    /\ callsLeft = MaxCalls
    /\ cache = [k \in CacheKeys |-> NoEntry]
    /\ fetch = IdleFetch
    /\ fetchesLeft = 0
    /\ impl = "api"
    /\ unauthLeft = Max401
    /\ prev = [a \in Athletes |-> NoPrev]
    /\ texts = PlainTexts
    /\ op = NoOp
    /\ writer = NoWriter
    /\ keyed = NoKeyed
    /\ registry = NoRegistry
    /\ zones = NoZones

NextToken ==
    \/ Tick
    \/ \E w \in Solo, a \in Athletes, su \in SinceInputs : SyncStart(w, a, su)
    \/ \E w \in Solo : SyncTokenValid(w)
    \/ \E w \in Solo : SyncRefresh(w)
    \/ \E w \in Solo : SyncSaveTokens(w)
    \/ \E w \in Solo : SyncComputeSince(w)
    \/ \E w \in Solo : SyncFetchPage(w)
    \/ \E w \in Solo : SyncRefresh401(w)
    \/ \E w \in Solo : SyncSaveTokens401(w)
    \/ \E w \in Solo : SyncUpsert(w)
    \/ \E w \in Solo : SyncMark(w)
    \/ \E w \in Solo : SyncReturn(w)
    \/ \E w \in Solo : JobEnd(w)
    \/ EnsStart
    \/ EnsPost
    \/ EnsSave
    \/ EnsOAuth
    \/ EnsReturn

SpecToken == InitToken /\ [][NextToken]_vars

(* Two handlers of the worker running at once, on jobs for one athlete or two *)

InitPair ==
    /\ now = StartTime
    /\ workout = {}
    /\ feed = InitFeed
    /\ sync = [w \in Workers |-> IdleSync]
    /\ lastUp = [k \in Athletes \X ActivityIds |-> NoUpsert]
    /\ editsLeft = 0
    /\ athlete = InitAthlete
    /\ syncsLeft = MaxSyncs
    /\ tokFile = NoFile
    /\ ens = IdleEns
    /\ callsLeft = 0
    /\ cache = [k \in CacheKeys |-> NoEntry]
    /\ fetch = IdleFetch
    /\ fetchesLeft = 0
    /\ impl = "api"
    /\ unauthLeft = 0
    /\ prev = [a \in Athletes |-> NoPrev]
    /\ texts = PlainTexts
    /\ op = NoOp
    /\ writer = NoWriter
    /\ keyed = NoKeyed
    /\ registry = NoRegistry
    /\ zones = NoZones

NextPair ==
    \/ Tick
    \/ \E w \in Workers, a \in {"a2"}, su \in SinceInputs : SyncStart(w, a, su)
    \/ \E w \in Workers : SyncTokenValid(w)
    \/ \E w \in Workers : SyncComputeSince(w)
    \/ \E w \in Workers : SyncFetchPage(w)
    \/ \E w \in Workers : SyncUpsert(w)
    \/ \E w \in Workers : SyncMark(w)
    \/ \E w \in Workers : SyncReturn(w)
    \/ \E w \in Workers : JobEnd(w)

SpecPair == InitPair /\ [][NextPair]_vars

(* One job of any kind, and every error text *)

InitJob ==
    /\ now = StartTime
    /\ workout = {}
    /\ feed = InitFeed
    /\ sync = [w \in Workers |-> IdleSync]
    /\ lastUp = [k \in Athletes \X ActivityIds |-> NoUpsert]
    /\ editsLeft = 0
    /\ \E e \in InitExpiries : athlete = [InitAthlete EXCEPT !["a1"].expiry = e]
    /\ syncsLeft = 1
    /\ tokFile = NoFile
    /\ ens = IdleEns
    /\ callsLeft = 0
    /\ cache = [k \in CacheKeys |-> NoEntry]
    /\ fetch = IdleFetch
    /\ fetchesLeft = 0
    /\ impl = "api"
    /\ unauthLeft = 1
    /\ prev = [a \in Athletes |-> NoPrev]
    /\ texts = AllTexts
    /\ op = NoOp
    /\ writer = NoWriter
    /\ keyed = NoKeyed
    /\ registry = NoRegistry
    /\ zones = NoZones

NextJob ==
    \/ Tick
    \/ \E w \in Solo, a \in Athletes, su \in SinceInputs : SyncStart(w, a, su)
    \/ \E w \in Solo : JobMalformed(w)
    \/ \E w \in Solo : JobBadAthleteId(w)
    \/ \E w \in Solo : SyncTokenValid(w)
    \/ \E w \in Solo : SyncRefresh(w)
    \/ \E w \in Solo : SyncSaveTokens(w)
    \/ \E w \in Solo : SyncComputeSince(w)
    \/ \E w \in Solo : SyncFetchPage(w)
    \/ \E w \in Solo : SyncRefresh401(w)
    \/ \E w \in Solo : SyncSaveTokens401(w)
    \/ \E w \in Solo : SyncUpsert(w)
    \/ \E w \in Solo : SyncMark(w)
    \/ \E w \in Solo : SyncReturn(w)
    \/ \E w \in Solo : JobEnd(w)

SpecJob == InitJob /\ [][NextJob]_vars

(* An account nobody authorized: the token columns of the athlete are NULL, the
   CLI has no token file or one without a refresh token *)

InitNoCred ==
    /\ now = StartTime
    /\ workout = {}
    /\ feed = InitFeed
    /\ sync = [w \in Workers |-> IdleSync]
    /\ lastUp = [k \in Athletes \X ActivityIds |-> NoUpsert]
    /\ editsLeft = 0
    /\ athlete = [a \in Athletes |->
                    IF a \in {"a2"}
                    THEN [InitAthlete[a] EXCEPT !.access = NoTok.access,
                                               !.refresh = NoTok.refresh,
                                               !.expiry = NoTok.expires_at]
                    ELSE InitAthlete[a]]
    /\ syncsLeft = MaxSyncs
    /\ tokFile \in {f \in InitFiles : ~f.exists \/ f.refresh = NoTok.refresh}
    /\ ens = IdleEns
    /\ callsLeft = MaxCalls
    /\ cache = [k \in CacheKeys |-> NoEntry]
    /\ fetch = IdleFetch
    /\ fetchesLeft = 0
    /\ impl = "api"
    /\ unauthLeft = 0
    /\ prev = [a \in Athletes |-> NoPrev]
    /\ texts = AllTexts
    /\ op = NoOp
    /\ writer = NoWriter
    /\ keyed = NoKeyed
    /\ registry = NoRegistry
    /\ zones = NoZones

NextNoCred ==
    \/ Tick
    \/ \E w \in Solo, a \in {"a2"}, su \in SinceInputs : SyncStart(w, a, su)
    \/ \E w \in Solo : SyncRefresh(w)
    \/ \E w \in Solo : SyncReturn(w)
    \/ \E w \in Solo : JobEnd(w)
    \/ EnsStart
    \/ EnsOAuth
    \/ EnsReturn

SpecNoCred == InitNoCred /\ [][NextNoCred]_vars

(* One handler, calls one after the other, with the history of the last call kept *)

InitTwice ==
    /\ now = StartTime
    /\ workout = {}
    /\ feed = InitFeed
    /\ sync = [w \in Workers |-> IdleSync]
    /\ lastUp = [k \in Athletes \X ActivityIds |-> NoUpsert]
    /\ editsLeft = MaxEdits
    /\ athlete = InitAthlete
    /\ syncsLeft = MaxSyncs
    /\ tokFile = NoFile
    /\ ens = IdleEns
    /\ callsLeft = 0
    /\ cache = [k \in CacheKeys |-> NoEntry]
    /\ fetch = IdleFetch
    /\ fetchesLeft = 0
    /\ impl = "api"
    /\ unauthLeft = 0
    /\ prev = [a \in Athletes |-> [NoPrev EXCEPT !.track = TRUE]]
    /\ texts = PlainTexts
    /\ op = NoOp
    /\ writer = NoWriter
    /\ keyed = NoKeyed
    /\ registry = NoRegistry
    /\ zones = NoZones

NextTwice ==
    \/ Tick
    \/ \E a \in Athletes, i \in ActivityIds : UpstreamEdit(a, i)
    \/ \E w \in Solo, a \in Athletes, su \in SinceInputs : SyncStart(w, a, su)
    \/ \E w \in Solo : SyncTokenValid(w)
    \/ \E w \in Solo : SyncComputeSince(w)
    \/ \E w \in Solo : SyncFetchPage(w)
    \/ \E w \in Solo : SyncUpsert(w)
    \/ \E w \in Solo : SyncMark(w)
    \/ \E w \in Solo : SyncReturn(w)
    \/ \E w \in Solo : JobEnd(w)

SpecTwice == InitTwice /\ [][NextTwice]_vars

(* The cached GETs over a cache directory that holds a file that does not parse *)

InitDamaged ==
    /\ now = StartTime
    /\ workout = {}
    /\ feed = InitFeed
    /\ sync = [w \in Workers |-> IdleSync]
    /\ lastUp = [k \in Athletes \X ActivityIds |-> NoUpsert]
    /\ editsLeft = 0
    /\ athlete = InitAthlete
    /\ syncsLeft = 0
    /\ tokFile = NoFile
    /\ ens = IdleEns
    /\ callsLeft = 0
    /\ cache = [k \in CacheKeys |-> IF k = "k1" THEN CorruptEntry ELSE NoEntry]
    /\ fetch = IdleFetch
    /\ fetchesLeft = MaxFetches
    /\ impl \in {"api", "main", "hevy"}
    /\ unauthLeft = 0
    /\ prev = [a \in Athletes |-> NoPrev]
    /\ texts = PlainTexts
    /\ op = NoOp
    /\ writer = NoWriter
    /\ keyed = NoKeyed
    /\ registry = NoRegistry
    /\ zones = NoZones

NextDamaged ==
    \/ Tick
    \/ \E k \in CacheKeys, ttl \in Ttls, nc \in BOOLEAN, hc \in BOOLEAN : FetchStart(k, ttl, nc, hc)
    \/ FetchCond
    \/ FetchNormal
    \/ FetchDo
    \/ FetchReturn

SpecDamaged == InitDamaged /\ [][NextDamaged]_vars

(* The cache store of one client, written and read directly *)

InitStore ==
    /\ now = StartTime
    /\ workout = {}
    /\ feed = InitFeed
    /\ sync = [w \in Workers |-> IdleSync]
    /\ lastUp = [k \in Athletes \X ActivityIds |-> NoUpsert]
    /\ editsLeft = 0
    /\ athlete = InitAthlete
    /\ syncsLeft = 0
    /\ tokFile = NoFile
    /\ ens = IdleEns
    /\ callsLeft = 0
    /\ cache = [k \in CacheKeys |-> NoEntry]
    /\ fetch = IdleFetch
    /\ fetchesLeft = 0
    /\ impl \in {"api", "main", "hevy"}
    /\ unauthLeft = 0
    /\ prev = [a \in Athletes |-> NoPrev]
    /\ texts = PlainTexts
    /\ op = NoOp
    /\ writer = NoWriter
    /\ keyed = NoKeyed
    /\ registry = NoRegistry
    /\ zones = NoZones

NextStore ==
    \/ Tick
    \/ \E k \in {"k1"}, e \in ETags, b \in {"B1", "Shape", "Junk"},
          g \in {0, StartTime - 1000}, d \in DiskOutcomes :
            CacheWrite(k, e, b, g, d)
    \/ \E k \in {"k1"}, ttl \in Ttls : CacheRead(k, ttl)

SpecStore == InitStore /\ [][NextStore]_vars

(* Readers of the cache store while a Write of the same key is under way *)

InitAtomic ==
    /\ now = StartTime
    /\ workout = {}
    /\ feed = InitFeed
    /\ sync = [w \in Workers |-> IdleSync]
    /\ lastUp = [k \in Athletes \X ActivityIds |-> NoUpsert]
    /\ editsLeft = 0
    /\ athlete = InitAthlete
    /\ syncsLeft = 0
    /\ tokFile = NoFile
    /\ ens = IdleEns
    /\ callsLeft = 0
    /\ cache = [k \in CacheKeys |-> NoEntry]
    /\ fetch = IdleFetch
    /\ fetchesLeft = 0
    /\ impl \in {"api", "main", "hevy"}
    /\ unauthLeft = 0
    /\ prev = [a \in Athletes |-> NoPrev]
    /\ texts = PlainTexts
    /\ op = NoOp
    /\ writer = NoWriter
    /\ keyed = NoKeyed
    /\ registry = NoRegistry
    /\ zones = NoZones

NextAtomic ==
    \/ Tick
    \/ \E k \in {"k1"}, e \in ETags, b \in {"B1", "B2"} : WriteBegin(k, e, b)
    \/ WriteEnd
    \/ WriteCrash
    \/ \E k \in {"k1"}, ttl \in Ttls : CacheRead(k, ttl)

SpecAtomic == InitAtomic /\ [][NextAtomic]_vars

(* Handlers of the worker refreshing the token of one athlete at once *)

InitRace ==
    /\ now = StartTime
    /\ workout = {}
    /\ feed = InitFeed
    /\ sync = [w \in Workers |-> IdleSync]
    /\ lastUp = [k \in Athletes \X ActivityIds |-> NoUpsert]
    /\ editsLeft = 0
    /\ \E e \in InitExpiries : athlete = [InitAthlete EXCEPT !["a1"].expiry = e]
    /\ syncsLeft = MaxSyncs
    /\ tokFile = NoFile
    /\ ens = IdleEns
    /\ callsLeft = 0
    /\ cache = [k \in CacheKeys |-> NoEntry]
    /\ fetch = IdleFetch
    /\ fetchesLeft = 0
    /\ impl = "api"
    /\ unauthLeft = 0
    /\ prev = [a \in Athletes |-> NoPrev]
    /\ texts = PlainTexts
    /\ op = NoOp
    /\ writer = NoWriter
    /\ keyed = NoKeyed
    /\ registry = NoRegistry
    /\ zones = NoZones

\* the handlers up to the stored tokens; a handler that has its token goes on alone
NextRace ==
    \/ Tick
    \/ \E w \in Workers, a \in {"a1"}, su \in SinceInputs : SyncStart(w, a, su)
    \/ \E w \in Workers : SyncTokenValid(w)
    \/ \E w \in Workers : SyncRefreshBegin(w)
    \/ \E w \in Workers : SyncRefreshEnd(w)
    \/ \E w \in Workers : SyncSaveTokens(w)
    \/ \E w \in Workers : SyncReturn(w)
    \/ \E w \in Workers : JobEnd(w)

SpecRace == InitRace /\ [][NextRace]_vars

(* Two handlers of the worker at once, each on a job for an athlete of its own *)

NextApart ==
    \/ Tick
    \/ \E su \in SinceInputs : SyncStart("w1", "a1", su)
    \/ \E su \in SinceInputs : SyncStart("w2", "a2", su)
    \/ \E w \in Workers : SyncTokenValid(w)
    \/ \E w \in Workers : SyncRefresh(w)
    \/ \E w \in Workers : SyncSaveTokens(w)
    \/ \E w \in Workers : SyncComputeSince(w)
    \/ \E w \in Workers : SyncFetchPage(w)
    \/ \E w \in Workers : SyncUpsert(w)
    \/ \E w \in Workers : SyncMark(w)
    \/ \E w \in Workers : SyncReturn(w)
    \/ \E w \in Workers : JobEnd(w)

SpecApart == InitRace /\ [][NextApart]_vars

(* The keys of two requests, each computed under some iteration of its map *)

InitKeys ==
    /\ now = StartTime
    /\ workout = {}
    /\ feed = InitFeed
    /\ sync = [w \in Workers |-> IdleSync]
    /\ lastUp = [k \in Athletes \X ActivityIds |-> NoUpsert]
    /\ editsLeft = 0
    /\ athlete = InitAthlete
    /\ syncsLeft = 0
    /\ tokFile = NoFile
    /\ ens = IdleEns
    /\ callsLeft = 0
    /\ cache = [k \in CacheKeys |-> NoEntry]
    /\ fetch = IdleFetch
    /\ fetchesLeft = 0
    /\ impl \in {"api", "main"}
    /\ unauthLeft = 0
    /\ prev = [a \in Athletes |-> NoPrev]
    /\ texts = PlainTexts
    /\ op = NoOp
    /\ writer = NoWriter
    /\ \E r1 \in Requests, r2 \in Requests :
          keyed = [req |-> <<r1, r2>>, order |-> << <<>>, <<>> >>,
                   key |-> << <<>>, <<>> >>, done |-> <<FALSE, FALSE>>]
    /\ registry = NoRegistry
    /\ zones = NoZones

NextKeys ==
    \E i \in {1, 2} : \E order \in Orders(keyed.req[i].params) : KeyForCall(i, order)

SpecKeys == InitKeys /\ [][NextKeys]_vars

(* The CLI's helpers: the provider Registry and the heart-rate zones *)

InitLib ==
    /\ now = StartTime
    /\ workout = {}
    /\ feed = InitFeed
    /\ sync = [w \in Workers |-> IdleSync]
    /\ lastUp = [k \in Athletes \X ActivityIds |-> NoUpsert]
    /\ editsLeft = 0
    /\ athlete = InitAthlete
    /\ syncsLeft = 0
    /\ tokFile = NoFile
    /\ ens = IdleEns
    /\ callsLeft = 0
    /\ cache = [k \in CacheKeys |-> NoEntry]
    /\ fetch = IdleFetch
    /\ fetchesLeft = 0
    /\ impl \in {"api", "main"}
    /\ unauthLeft = 0
    /\ prev = [a \in Athletes |-> NoPrev]
    /\ texts = PlainTexts
    /\ op = NoOp
    /\ writer = NoWriter
    /\ keyed = NoKeyed
    /\ registry = NoRegistry
    /\ \E n \in 0..MaxSamples, h \in {0, 100, 200} :
        \E hr \in [1..n -> {-1, 0, 69, 70, 80, 88, 95, 140, 176}] :
            zones = [NoZones EXCEPT !.hr = hr, !.hrmax = h]

NextLib ==
    \/ \E p \in [name : {"strava", "hevy"}, id : {1, 2}] : RegistryRegister(p)
    \/ \E order \in Orders(DOMAIN registry.providers) : RegistryList(order)
    \/ ZonesCall

SpecLib == InitLib /\ [][NextLib]_vars

(* The cached GETs of one client over its cache directory *)

InitFetch ==
    /\ now = StartTime
    /\ workout = {}
    /\ feed = InitFeed
    /\ sync = [w \in Workers |-> IdleSync]
    /\ lastUp = [k \in Athletes \X ActivityIds |-> NoUpsert]
    /\ editsLeft = 0
    /\ athlete = InitAthlete
    /\ syncsLeft = 0
    /\ tokFile = NoFile
    /\ ens = IdleEns
    /\ callsLeft = 0
    /\ cache = [k \in CacheKeys |-> NoEntry]
    /\ fetch = IdleFetch
    /\ fetchesLeft = MaxFetches
    /\ impl \in {"api", "main", "hevy"}
    /\ unauthLeft = 0
    /\ prev = [a \in Athletes |-> NoPrev]
    /\ texts = PlainTexts
    /\ op = NoOp
    /\ writer = NoWriter
    /\ keyed = NoKeyed
    /\ registry = NoRegistry
    /\ zones = NoZones

NextFetch ==
    \/ Tick
    \/ \E k \in CacheKeys, ttl \in Ttls, nc \in BOOLEAN, hc \in BOOLEAN : FetchStart(k, ttl, nc, hc)
    \/ FetchCond
    \/ FetchNormal
    \/ FetchDo
    \/ FetchReturn

SpecFetch == InitFetch /\ [][NextFetch]_vars

----------------------------------------------------------------------------
(* Properties *)

Watermark(tbl, id) == [hasSync |-> tbl[id].hasSync, lastSync |-> tbl[id].lastSync]

\* C1: whenever syncStravaForAthlete returns an error (get athlete, refresh, token
\* update, transport, status >= 300, decode, upsert or watermark update, on any
\* page), the athlete's stored last_strava_sync is what it was when the call began.
C1_ErrorKeepsWatermark ==
    \A w \in Workers :
        (sync[w].pc = "done" /\ sync[w].err # "")
            => Watermark(athlete, sync[w].aid) = sync[w].wm0

\* a sync that failed on its second page, after the first page was upserted, on an
\* athlete that already had a watermark
C1_Witness ==
    \E w \in Workers :
        /\ sync[w].pc = "done"
        /\ sync[w].err \in {"strava activities status", "upsert workout"}
        /\ sync[w].page = 2
        /\ sync[w].wm0.hasSync

RowsOf(k) ==
    {r \in workout : r.athlete_id = k[1] /\ r.source = "strava" /\ r.source_id = k[2]}

\* C2: the workout table holds at most one row per (athlete_id, source, source_id),
\* and that row carries the values of the latest upsert for the key.
C2_UpsertLatestOnly ==
    \A k \in Athletes \X ActivityIds :
        /\ Cardinality(RowsOf(k)) <= 1
        /\ lastUp[k].row = NoRow => RowsOf(k) = {}
        /\ lastUp[k].row # NoRow => RowsOf(k) = {lastUp[k].row}

\* an upsert replaced a row of the same key that had other field values
C2_Witness ==
    \E k \in Athletes \X ActivityIds :
        /\ lastUp[k].replaced
        /\ lastUp[k].row.name = "n2"
        /\ lastUp[k].row \in workout

\* C3: after a 401 the caller forces one refresh and retries the page once; a 401
\* on the retry is surfaced, never answered with another refresh.
C3_RefreshOnceThenSurface ==
    \A w \in Workers : sync[w].pc = "refresh401" => ~sync[w].retried

\* C4: on a stored credential that has a refresh token, the token step makes
\* exactly one token-endpoint call when expires_at - now < 120 s and none otherwise,
\* and with no call the token it goes on with is the stored access token.
C4_OneCallIffExpiring ==
    /\ \A w \in Workers :
        (sync[w].decidedAt # -1 /\ sync[w].cred0.refresh # NoTok.refresh)
            => /\ sync[w].proCalls =
                    (IF sync[w].cred0.expires_at - sync[w].decidedAt < 120 THEN 1 ELSE 0)
               /\ (sync[w].proCalls = 0 /\ sync[w].pc = "since")
                    => sync[w].access = sync[w].cred0.access
    /\ (ens.pc \in {"save", "done"} /\ ens.file0.exists /\ ens.file0.refresh # NoTok.refresh)
            => /\ ens.calls = (IF ens.file0.expires_at - ens.nowUnix < 120 THEN 1 ELSE 0)
               /\ ens.calls = 0
                    => (ens.pc = "done" /\ ens.err = "" /\ ens.token = ens.file0.access)

\* EnsureTokens returned after one call on a token 60 s from expiry, in a run where
\* the worker had passed its token step without a call on a token exactly 120 s
\* from expiry
C4_Witness ==
    /\ ens.pc = "done"
    /\ ens.calls = 1
    /\ ens.file0.expires_at - ens.nowUnix = 60
    /\ ens.token # ens.file0.access
    /\ athlete["a1"].expiry = StartTime + 120
    /\ athlete["a1"].hasSync

\* C5: once a refresh has succeeded, proactive or forced by a 401, the stored
\* credential holds the access token, refresh token and expiry of the response
\* before the new token is used for a request or returned, and the token used or
\* returned is the new one.
C5_StoredBeforeUse ==
    /\ \A w \in Workers :
        (sync[w].lastTok # NoTok
            /\ sync[w].pc \in {"since", "fetch", "upsert", "mark", "refresh401"})
            => /\ StoredCred(athlete, sync[w].aid) = sync[w].lastTok
               /\ sync[w].access = sync[w].lastTok.access
    /\ (ens.pc = "done" /\ ens.err = "" /\ ens.lastTok # NoTok)
            => /\ tokFile = FileOf(ens.lastTok)
               /\ ens.token = ens.lastTok.access

\* the worker is about to retry a page with the token of a forced refresh, the
\* second refresh of the call
C5_Witness ==
    \E w \in Workers :
        /\ sync[w].pc = "fetch"
        /\ sync[w].retried
        /\ sync[w].proCalls = 1
        /\ sync[w].lastTok.access = <<"A", 3>>
        /\ athlete[sync[w].aid].access = <<"A", 3>>

\* the exchange o failed: transport error, non-success status or undecodable body
ExchangeFailed(o) == o.neterr \/ o.status < 200 \/ o.status >= 300 \/ ~o.body.json

\* C6: when the token-endpoint exchange fails, the token step returns an error,
\* never a token, and the stored credential is what it was before the exchange.
C6_FailedRefreshKeepsCredential ==
    /\ \A w \in Workers :
        (sync[w].lastO # NoOutcome /\ ExchangeFailed(sync[w].lastO))
            => /\ sync[w].pc \in {"done", "handled"}
               /\ sync[w].err \in {"refresh strava token", "401/refresh"}
               /\ StoredCred(athlete, sync[w].aid) = sync[w].credBefore
    /\ (ens.lastO # NoOutcome /\ ExchangeFailed(ens.lastO))
            => /\ ens.pc = "done"
               /\ ens.err \in {"refresh token failed", "decode refresh token failed"}
               /\ ens.token = NoTok.access
               /\ tokFile = ens.file0

\* a forced refresh was rejected with status 400 after the proactive refresh of the
\* same call had replaced the stored credential
C6_Witness ==
    \E w \in Workers :
        /\ sync[w].pc = "done"
        /\ sync[w].err = "401/refresh"
        /\ sync[w].lastO.status = 400
        /\ sync[w].credBefore # sync[w].cred0
        /\ StoredCred(athlete, sync[w].aid) = sync[w].credBefore

\* the entry the call found for its key was fresh for its ttl
FoundFresh(f) ==
    f.cache0.st = "ok" /\ (f.ttl > 0 => f.t0 - f.cache0.fetched_at <= f.ttl)

\* C7: with caching enabled and the cache store taking the write, a cached GET that
\* finds no entry and receives 200 with a decodable body B and an ETag stores B with
\* that ETag under its key and returns B; a later GET of the same key within ttl
\* returns B with no network request.
C7_MissStoresThenServes ==
    (fetch.pc = "done" /\ fetch.hasCache /\ ~fetch.noCache)
        => /\ (/\ fetch.cache0.st = "none"
               /\ Len(fetch.reqs) = 1
               /\ fetch.reqs[1].status = 200
               /\ fetch.reqs[1].etag # ""
               /\ Decodes(fetch.reqs[1].body)
               /\ fetch.disk = "ok")
                => /\ cache[fetch.key].st = "ok"
                   /\ cache[fetch.key].etag = fetch.reqs[1].etag
                   /\ JsonDoc(cache[fetch.key].body) = fetch.reqs[1].body
                   /\ cache[fetch.key].fetched_at >= fetch.t0
                   /\ cache[fetch.key].fetched_at <= now
                   /\ fetch.res = OkResult(DecodedValue(fetch.reqs[1].body))
           /\ (FoundFresh(fetch) /\ Decodes(fetch.cache0.body))
                => /\ fetch.reqs = <<>>
                   /\ fetch.res = OkResult(DecodedValue(fetch.cache0.body))
                   /\ cache[fetch.key] = fetch.cache0

\* the second GET of a key, ttl seconds after the first stored B1 with ETag v1,
\* returned V1 without a request
C7_Witness ==
    /\ fetch.pc = "done"
    /\ fetchesLeft = 0
    /\ fetch.hasCache /\ ~fetch.noCache
    /\ fetch.ttl = FetchTtl
    /\ fetch.cache0 = NewEntry("v1", "B1", StartTime)
    /\ fetch.t0 = StartTime + FetchTtl
    /\ fetch.reqs = <<>>
    /\ fetch.res = OkResult("V1")

\* the entry the call found for its key was stale for its ttl and has an ETag
FoundStaleWithETag(f) ==
    /\ f.hasCache
    /\ f.cache0.st = "ok"
    /\ f.cache0.etag # ""
    /\ f.ttl > 0
    /\ f.t0 - f.cache0.fetched_at > f.ttl

\* C8: with a stale entry that has an ETag, the request carries If-None-Match with
\* that ETag, and when the upstream answers 304 the result is the stale entry's
\* body.
C8_Stale304ServesStaleBody ==
    FoundStaleWithETag(fetch)
        => /\ \A i \in DOMAIN fetch.reqs : fetch.reqs[i].inm = fetch.cache0.etag
           /\ (fetch.pc = "done" /\ \E i \in DOMAIN fetch.reqs : fetch.reqs[i].status = 304)
                => fetch.res = UnmarshalResult(fetch.cache0.body)

\* C9: a cached GET makes at most two round trips, and two exactly when its
\* conditional request was not answered 304 and it goes on to the full fetch
\* (doJSON has no second request).
C9_AtMostTwoRoundTrips ==
    /\ Len(fetch.reqs) <= 2
    /\ Len(fetch.reqs) = 2
        => (impl # "hevy" /\ fetch.reqs[1].inm # "" /\ fetch.reqs[1].status # 304)
    /\ (fetch.pc = "done" /\ impl # "hevy" /\ Len(fetch.reqs) >= 1
            /\ fetch.reqs[1].inm # "" /\ fetch.reqs[1].status # 304)
        => Len(fetch.reqs) = 2
    /\ (fetch.pc = "done" /\ Len(fetch.reqs) >= 1 /\ fetch.reqs[1].inm = "")
        => Len(fetch.reqs) = 1

\* a conditional request answered 500 was followed by the full fetch
C9_Witness ==
    /\ fetch.pc = "done"
    /\ Len(fetch.reqs) = 2
    /\ fetch.reqs[1].inm = "v1"
    /\ fetch.reqs[1].status = 500
    /\ fetch.reqs[2].status = 200

\* C10 as stated: whenever the upstream answers a request of the call with a
\* client or server error status, the call returns an error with that status and
\* body and the cache entry of the key is what it was before the call.
C10_AnyErrorStatusSurfaces ==
    \A i \in DOMAIN fetch.reqs :
        (fetch.pc = "done" /\ fetch.reqs[i].status >= 400)
            => /\ fetch.res = ErrResult("status", fetch.reqs[i].status, fetch.reqs[i].body)
               /\ cache[fetch.key] = fetch.cache0

\* C10 amended: when the upstream answers the normal fetch (in doJSON the only
\* request) with a client or server error status, the call returns an error with
\* that status and body and the cache entry of the key is what it was before the
\* call.
C10_ErrorStatusOfNormalFetchSurfaces ==
    (fetch.pc = "done" /\ Len(fetch.reqs) >= 1
        /\ fetch.reqs[Len(fetch.reqs)].status >= 400)
        => /\ fetch.res = ErrResult("status", fetch.reqs[Len(fetch.reqs)].status,
                                    fetch.reqs[Len(fetch.reqs)].body)
           /\ cache[fetch.key] = fetch.cache0

\* the normal fetch was answered 404 with an entry of the key in the cache
C10_Witness ==
    /\ fetch.pc = "done"
    /\ fetch.cache0.st = "ok"
    /\ Len(fetch.reqs) >= 1
    /\ fetch.reqs[Len(fetch.reqs)].status = 404
    /\ fetch.res = ErrResult("status", 404, "E")
    /\ cache[fetch.key] = fetch.cache0

\* C11: with caching disabled for the call (NoCache, STRAVA_NOCACHE) the cached GET
\* goes straight to the normal request: no request carries If-None-Match, it makes
\* exactly one request, and a result it returns is decoded from that response, never
\* from the cache.
C11_NoCacheSkipsCache ==
    fetch.noCache
        => /\ fetch.pc # "cond"
           /\ \A i \in DOMAIN fetch.reqs : fetch.reqs[i].inm = ""
           /\ fetch.pc = "done"
                => /\ Len(fetch.reqs) = 1
                   /\ fetch.res.ok => fetch.res = UnmarshalResult(fetch.reqs[1].body)

\* C12: a conditional request answered 304 leaves the cache entry of the key with
\* fetched_at at the time of the revalidation, so that the entry is fresh again.
C12_RevalidationRefreshesEntry ==
    (fetch.pc = "done" /\ Len(fetch.reqs) >= 1 /\ fetch.reqs[1].status = 304 /\ fetch.res.ok)
        => /\ cache[fetch.key].st = "ok"
           /\ cache[fetch.key].fetched_at >= fetch.t0
           /\ cache[fetch.key].body = fetch.cache0.body

\* C13: after a call that completed every page, the athlete's stored
\* last_strava_sync is the time at which the call started.
C13_WatermarkIsStartTime ==
    \A w \in Workers :
        (sync[w].pc = "done" /\ sync[w].err = "")
            => /\ athlete[sync[w].aid].hasSync
               /\ athlete[sync[w].aid].lastSync = sync[w].startedAt

\* the requests of the call that were answered 200 with a body that decodes
OkPages(s) == SelectSeq(s.reqs, LAMBDA r : r.decoded)

\* the number of items in the pages of q
RECURSIVE ItemsIn(_)
ItemsIn(q) == IF q = <<>> THEN 0 ELSE Head(q).n + ItemsIn(Tail(q))

C16_WindowStart ==
    [][\A w \in Workers :
        (sync[w].pc = "since" /\ sync'[w].pc = "fetch")
            => sync'[w].since =
                (IF sync[w].sinceUnix # 0 THEN sync[w].sinceUnix
                 ELSE IF sync[w].wm0.hasSync THEN sync[w].wm0.lastSync - 43200
                 ELSE now - 1209600)]_vars

\* the call goes on from a window start that is a stored watermark minus 12 hours
C16_Witness ==
    \E w \in Workers :
        /\ sync[w].pc = "fetch"
        /\ sync[w].sinceUnix = 0
        /\ sync[w].wm0.hasSync
        /\ sync[w].since = athlete[sync[w].aid].lastSync - 43200
        /\ sync[w].since > StartTime - 43200

C17_SecondSyncChangesNoRows ==
    \A w \in Workers :
        LET s == sync[w] IN
        (s.pc = "done" /\ s.err = "" /\ prev[s.aid].ok
            /\ prev[s.aid].sinceUnix = s.sinceUnix
            /\ prev[s.aid].feed0 = feed[s.aid])
            => /\ WorkoutsOf(workout, s.aid) = prev[s.aid].rows
               /\ athlete[s.aid].lastSync >= s.wm0.lastSync

\* the second call of a run completed a tick after the first and upserted again the
\* row the first had stored
C17_Witness ==
    \E w \in Workers :
        /\ sync[w].pc = "done" /\ sync[w].err = ""
        /\ prev[sync[w].aid].ok
        /\ prev[sync[w].aid].sinceUnix = sync[w].sinceUnix
        /\ prev[sync[w].aid].feed0 = feed[sync[w].aid]
        /\ sync[w].ups >= 1
        /\ prev[sync[w].aid].rows # {}
        /\ athlete[sync[w].aid].lastSync > sync[w].wm0.lastSync

\* C18: a failure on an upstream status is handed back for a retry exactly when the
\* status is 429 or 5xx, whatever the body of the response reads.
C18_RetryIff429Or5xx ==
    \A w \in Workers :
        (sync[w].pc = "handled" /\ sync[w].err = "strava activities status")
            => (sync[w].requeue
                    <=> (sync[w].status = 429
                            \/ (sync[w].status >= 500 /\ sync[w].status <= 599)))

\* the token endpoint turned the refresh token down as an invalid grant
InvalidGrant(s) == s.cause = "status" /\ Contains(s.detail, <<"invalid_grant">>)

\* C19: a failed token refresh, proactive or forced by a 401, is handed back for a
\* retry unless the token endpoint rejected the grant as invalid, and then it is not.
C19_RefreshFailureRetryUnlessInvalidGrant ==
    \A w \in Workers :
        (sync[w].pc = "handled" /\ sync[w].err \in {"refresh strava token", "401/refresh"})
            => (sync[w].requeue <=> ~InvalidGrant(sync[w]))

\* C20: the handler hands a job back for a retry only after a transport failure, a
\* status 429 or 5xx or a failed token refresh; never a job with a malformed payload
\* or an athlete id that is no UUID, and never a 403.
C20_RetryOnlyTransient ==
    \A w \in Workers :
        (sync[w].pc = "handled" /\ sync[w].requeue)
            => /\ sync[w].payload = "ok"
               /\ \/ sync[w].cause = "transport"
                  \/ Contains(sync[w].detail, <<"connection">>)
                  \/ (sync[w].err = "strava activities status"
                        /\ (sync[w].status = 429 \/ sync[w].status >= 500))
                  \/ sync[w].err \in {"refresh strava token", "401/refresh"}

\* C21: a call for an account without a stored credential makes no exchange with
\* the token endpoint and fails with the no-credential error, in the worker's token
\* step and in EnsureTokens alike.
C21_NoCredentialFailsWithoutExchange ==
    /\ \A w \in Workers :
        (sync[w].pc \in {"done", "handled"} /\ sync[w].payload = "ok"
            /\ sync[w].err # "get athlete" /\ sync[w].cred0.refresh = NoTok.refresh)
            => (sync[w].proCalls = 0 /\ sync[w].err = "no credential")
    /\ (ens.pc = "done" /\ ~(ens.file0.exists /\ ens.file0.refresh # NoTok.refresh))
            => (ens.calls = 0 /\ ens.err = "no credential")

\* C22: whatever the cache store does (no entry, a file that does not parse, a
\* write that fails), a cached GET whose last request is answered 200 with a
\* decodable body returns that body decoded.
C22_CacheFailureNeverFailsFetch ==
    (fetch.pc = "done" /\ Len(fetch.reqs) >= 1
        /\ fetch.reqs[Len(fetch.reqs)].status = 200
        /\ Decodes(fetch.reqs[Len(fetch.reqs)].body))
        => fetch.res = OkResult(DecodedValue(fetch.reqs[Len(fetch.reqs)].body))

\* a GET found a file that does not parse under its key, its write of the new entry
\* failed, and it returned the decoded body
C22_Witness ==
    /\ fetch.pc = "done"
    /\ fetch.hasCache
    /\ fetch.cache0 = CorruptEntry
    /\ fetch.disk = "fail"
    /\ cache[fetch.key] = CorruptEntry
    /\ Len(fetch.reqs) = 1
    /\ fetch.reqs[1].status = 200
    /\ fetch.res = OkResult("V1")

\* C23: Read(key, max_age) reports found = false exactly when the key has no entry
\* (no file, or none that parses) or when max_age > 0 and the entry is older than
\* max_age; otherwise it reports found = true with the etag and body stored.
C23_FoundIffEntryAndNotStale ==
    op.kind = "read"
        => LET e == cache[op.key]
               stale == op.maxAge > 0 /\ op.at - e.fetched_at > op.maxAge
           IN /\ op.found <=> (e.st = "ok" /\ ~stale)
              /\ op.found => (op.rEtag = e.etag /\ op.rBody = e.body)

\* a read with max_age 60 found an entry written 60 seconds before
C23_Witness ==
    /\ op.kind = "read"
    /\ op.maxAge = FetchTtl
    /\ cache[op.key].st = "ok"
    /\ op.at - cache[op.key].fetched_at = FetchTtl
    /\ op.found
    /\ op.rBody = cache[op.key].body

\* C24: once a Write has stored an entry under a key, every later Read(key, 0)
\* reports found = true with the ETag of the entry, whatever operations were made on
\* the store in between.
C24_WrittenEntryStaysReadable ==
    (op.kind = "read" /\ op.maxAge = 0 /\ op.written)
        => (op.found /\ op.rEtag = cache[op.key].etag)

C26_FetchedAtIsWriteTime ==
    \A k \in {"k1"} :
        cache[k].st = "ok"
            => (op.written /\ cache[k].fetched_at = op.storedAt)

\* a Write a tick after the start stored an entry that the caller had dated 1000
\* seconds before the start
C26_Witness ==
    /\ impl = "api"
    /\ op.kind = "write" /\ op.stored
    /\ op.given = StartTime - 1000
    /\ op.at = StartTime + TickSec
    /\ cache[op.key].fetched_at = StartTime + TickSec

\* C27: a Read never comes upon a partly written entry: while a Write of its key is
\* under way, and after a Write that died before its end, the file it reads is
\* absent or a whole entry, the one before the Write or the new one.
C27_ReadersSeeWholeEntries ==
    op.kind = "read" => op.saw \in {"none", "ok"}

\* C28: KeyFor is a pure function of the path and of the set of key=value pairs:
\* two calls with the same path and the same parameters give the same key,
\* whatever order the map was iterated in.
C28_KeyForOrderIndependent ==
    (keyed.done[1] /\ keyed.done[2] /\ keyed.req[1] = keyed.req[2])
        => keyed.key[1] = keyed.key[2]

\* both calls made for one request of two parameters, the map iterated in two orders
C28_Witness ==
    /\ keyed.done[1] /\ keyed.done[2]
    /\ keyed.req[1] = keyed.req[2]
    /\ Cardinality(keyed.req[1].params) = 2
    /\ keyed.order[1] # keyed.order[2]

\* C29: two requests that differ in the path or in the set of key=value pairs
\* never get the same key, also when they contain '=', '_', '/' or unsafe characters.
C29_DifferentRequestsDifferentKeys ==
    (keyed.done[1] /\ keyed.done[2] /\ keyed.req[1] # keyed.req[2])
        => keyed.key[1] # keyed.key[2]

\* C30: token refresh is a critical section per account: never are two refresh
\* exchanges for the same account in flight together.
C30_OneRefreshInFlightPerAccount ==
    \A w1 \in Workers, w2 \in Workers :
        (w1 # w2 /\ sync[w1].pc = "refreshing" /\ sync[w2].pc = "refreshing")
            => sync[w1].aid # sync[w2].aid

\* C31: after two concurrent refreshes of one account have both stored their result,
\* the stored Credential is the token set the endpoint issued last.
C31_StoredCredentialIsLastIssued ==
    \A w1 \in Workers, w2 \in Workers :
        (/\ w1 # w2
         /\ sync[w1].aid = sync[w2].aid
         /\ sync[w1].pc = "since" /\ sync[w2].pc = "since"
         /\ sync[w1].lastTok # NoTok /\ sync[w2].lastTok # NoTok
         /\ sync[w1].lastTok.expires_at <= sync[w2].lastTok.expires_at)
            => StoredCred(athlete, sync[w1].aid) = sync[w2].lastTok

\* C32: when two calls for one athlete that ran against an unchanged feed have both
\* returned success, the athlete's rows are the rows one call over the wider of the
\* two windows produces: one row per activity of the feed that started after the
\* window start, with the activity's values, and no other row.
C32_InterleavedSyncsLeaveOneSyncsRows ==
    \A w1 \in Workers, w2 \in Workers :
        (/\ w1 # w2
         /\ sync[w1].aid = sync[w2].aid
         /\ sync[w1].pc \in {"done", "handled"} /\ sync[w1].err = ""
         /\ sync[w2].pc \in {"done", "handled"} /\ sync[w2].err = ""
         /\ sync[w1].since <= sync[w2].since)
            => /\ {r \in workout : r.athlete_id = sync[w1].aid}
                    = {[athlete_id |-> sync[w1].aid, source |-> "strava",
                        source_id |-> x.id, name |-> x.name, started_at |-> x.start] :
                            x \in {y \in feed[sync[w1].aid] : y.start > sync[w1].since}}
               /\ \A r \in workout, q \in workout :
                    (r.athlete_id = q.athlete_id /\ r.source_id = q.source_id) => r = q

\* two calls for one athlete ran at once and each walked the feed and upserted
C32_Witness ==
    /\ sync["w1"].pc \in {"done", "handled"} /\ sync["w1"].err = ""
    /\ sync["w2"].pc \in {"done", "handled"} /\ sync["w2"].err = ""
    /\ sync["w1"].aid = sync["w2"].aid
    /\ sync["w1"].ups >= 1 /\ sync["w2"].ups >= 1
    /\ sync["w1"].startedAt = sync["w2"].startedAt

\* C33: a call for athlete A writes only state keyed by A: every change of an
\* athlete's token columns, watermark or workout rows is a step of a call that
\* runs for that athlete, also while a call for another athlete runs.
C33_SyncWritesOnlyItsAccount ==
    [][\A a \in Athletes :
        (\/ athlete'[a] # athlete[a]
         \/ {r \in workout' : r.athlete_id = a} # {r \in workout : r.athlete_id = a})
            => \E w \in Workers : sync[w].aid = a /\ sync'[w] # sync[w]]_vars

\* a call for a1 has refreshed, upserted and stored its watermark while a call for
\* a2 that began at the same time is about to store its own
C33_Witness ==
    /\ sync["w1"].aid = "a1" /\ sync["w1"].pc = "done" /\ sync["w1"].err = ""
    /\ sync["w1"].proCalls = 1 /\ sync["w1"].ups >= 1
    /\ sync["w2"].aid = "a2" /\ sync["w2"].pc = "mark" /\ sync["w2"].ups >= 1
    /\ sync["w1"].startedAt = sync["w2"].startedAt
    /\ athlete["a1"].hasSync /\ ~athlete["a2"].hasSync

\* C34: after any sequence of Register calls, Get(name) returns the provider most
\* recently registered under the name, and false for a name never registered; List
\* returns each registered name exactly once, and nothing on a new registry.
C34_RegistryKeepsLatestPerName ==
    /\ \A name \in {"strava", "hevy", "garmin"} :
        LET hits == {i \in 1..Len(registry.regs) : registry.regs[i].name = name}
            got == Get(registry.providers, name)
        IN IF hits = {} THEN ~got.exists
           ELSE /\ got.exists
                /\ got.provider = registry.regs[CHOOSE i \in hits : \A j \in hits : j <= i]
    /\ registry.listed =>
        LET names == {registry.regs[i].name : i \in 1..Len(registry.regs)}
        IN /\ {registry.list[i] : i \in 1..Len(registry.list)} = names
           /\ Len(registry.list) = Cardinality(names)

\* a name was registered twice, with two providers, and List was called after it
C34_Witness ==
    /\ registry.listed
    /\ Len(registry.regs) = 3
    /\ registry.regs[1].name = registry.regs[3].name
    /\ registry.regs[1].id # registry.regs[3].id
    /\ Len(registry.list) = 2

C36_FullFetchIsUnconditional ==
    Len(fetch.reqs) >= 2
        => /\ fetch.reqs[2].inm = ""
           /\ fetch.reqs[2].status # 304

\* C37: a 200 response whose body fails to decode is never stored: after the call
\* the cache entry of the key is what it was before the call.
C37_UndecodableBodyNotStored ==
    (/\ fetch.pc = "done"
     /\ fetch.reqs # <<>>
     /\ fetch.reqs[Len(fetch.reqs)].status = 200
     /\ ~Decodes(fetch.reqs[Len(fetch.reqs)].body))
        => cache[fetch.key] = fetch.cache0

\* C38: whenever a call returns success with window start since, every activity that
\* the athlete's feed held throughout the call (activities are only ever deleted in
\* SpecChurn, so those are the ones the feed holds at the end) with started_at >=
\* since has a row in the workout table, and the step that writes the watermark is
\* taken only when all those rows are there.
C38_WatermarkAfterAllUpserts ==
    /\ [](\A w \in Workers :
            (sync[w].pc = "done" /\ sync[w].err = "")
                => \A x \in feed[sync[w].aid] :
                        x.start >= sync[w].since
                            => \E r \in workout : /\ r.athlete_id = sync[w].aid
                                                  /\ r.source_id = x.id)
    /\ [][\A w \in Workers :
            (sync[w].pc = "mark" /\ sync'[w].pc = "done" /\ sync'[w].err = "")
                => /\ workout' = workout
                   /\ \A x \in feed[sync[w].aid] :
                        x.start >= sync[w].since
                            => \E r \in workout : /\ r.athlete_id = sync[w].aid
                                                  /\ r.source_id = x.id]_vars

====
